---- MODULE Spec2Model ----
(***************************************************************************)
(* Assignment manager of the crew / equipment scheduling backend.          *)
(*                                                                         *)
(* The state is the content of the relational store the route handlers     *)
(* read and write (events, crew_members, equipment, crew_assignments,      *)
(* equipment_assignments) plus the last HTTP response.  A handler is an    *)
(* operator from the store and the request to the response and the store   *)
(* it leaves; every action is one request: the middleware chain            *)
(* (authenticate, isScheduler, the express-validator chain, validate)      *)
(* followed by the handler body.                                           *)
(***************************************************************************)
EXTENDS Integers, Sequences, FiniteSets, TLC

(***************************************************************************)
(* Bounds of the model.                                                    *)
(***************************************************************************)
\* number of assignment rows (crew and equipment) the store ever generates
\* an id for
MaxRows == 2
\* longest crew_member_ids array of a bulk request
MaxBulk == 2

(***************************************************************************)
(* JSON / SQL values.  A value is tagged with its JavaScript type, so that *)
(* the number 0 and the string "0" (both accepted by isFloat) stay apart:  *)
(* `x || null` treats them differently.                                    *)
(***************************************************************************)
Str(s) == <<"string", s>>
Num(n) == <<"number", n>>
NULL == <<"null">>
Undefined == <<"undefined">>
\* the number value NaN
NaN == <<"NaN">>

\* req.body[field]: undefined when the JSON body has no such key
Get(body, field) == IF field \in DOMAIN body THEN body[field] ELSE Undefined

\* JavaScript truthiness of the values that occur in a request body
Falsy(v) == v \in {Undefined, NULL, Str(""), Num(0), NaN}

\* JavaScript `v || d`
OrElse(v, d) == IF Falsy(v) THEN d ELSE v

\* the pg driver sends every parameter as text: a numeric string bound to a
\* DECIMAL / INTEGER column is stored as the number it denotes
ToNumeric(v) ==
    CASE v = Str("0") -> Num(0)
      [] v = Str("1") -> Num(1)
      [] v = Str("2") -> Num(2)
      [] v = Str("10") -> Num(10)
      [] OTHER -> v

\* express-validator's trim() sanitizer on the strings of the model
Trim(v) == IF v = Str(" ") THEN Str("") ELSE v

(***************************************************************************)
(* Identifiers.                                                            *)
(***************************************************************************)
EventIds == {"e1", "e2"}
\* a well-formed UUID that names no events row
NoEvent == "e0"
CrewIds == {"c1", "c2"}
\* a well-formed UUID that names no crew_members row
NoCrew == "c0"
EquipmentIds == {"q1", "q2"}
\* a well-formed UUID that names no equipment row
NoEquipment == "q0"
\* the rows of the positions table, and a UUID that names none of them
Positions == {"p1", "p2"}
NoPosition == "p0"

StatusValues == {"pending", "confirmed", "declined", "no_show", "completed"}

(***************************************************************************)
(* Callers.  token: the request carries a Bearer token that verifies and   *)
(* names a users row; is_active and role are that row's columns.           *)
(***************************************************************************)
Actors ==
    { [token |-> TRUE,  is_active |-> TRUE,  role |-> "admin"],
      [token |-> TRUE,  is_active |-> TRUE,  role |-> "scheduler"],
      [token |-> TRUE,  is_active |-> TRUE,  role |-> "crew"],
      [token |-> TRUE,  is_active |-> FALSE, role |-> "scheduler"],
      [token |-> FALSE, is_active |-> TRUE,  role |-> "admin"] }

VARIABLES
    events,                 \* ids of the rows of table events
    crew_members,           \* crew member id -> is_active
    equipment,              \* equipment id -> is_active
    crew_assignments,       \* rows of table crew_assignments
    equipment_assignments,  \* rows of table equipment_assignments
    seq,                    \* assignment ids (uuid_generate_v4) drawn so far
    resp,                   \* the response to the last request
    request,                \* the request under study, where one is fixed
    catalog,                \* the columns of events, crew_members and
                            \* equipment that the reports read
    users,                  \* rows of table users
    now,                    \* the clock, in minutes
    inflight                \* the requests being served step by step:
                            \* request name -> its position and locals

vars == <<events, crew_members, equipment, crew_assignments,
          equipment_assignments, seq, resp, request, catalog,
                   users, now, inflight>>

\* the store as one value
Store ==
    [events |-> events, crew_members |-> crew_members, equipment |-> equipment,
     crew_assignments |-> crew_assignments,
     equipment_assignments |-> equipment_assignments, seq |-> seq]

NoRow == [id |-> 0]
NoResults == [assigned |-> 0, skipped |-> 0, errors |-> <<>>]

\* res.status(status).json(...): text is the error or the message member
Response(op, status, text) ==
    [op |-> op, status |-> status, text |-> text,
     assignment |-> NoRow, results |-> NoResults]

\* what a request leaves: its response and the store
Outcome(response, S) == [resp |-> response, store |-> S]

NoRequest == [op |-> "none"]

\* A DATE is counted in days.  The catalog gives, per row, the columns the
\* assignment routes never write: events.event_date, events.name,
\* events.cost_center, crew_members.name, crew_members.hourly_rate,
\* equipment.daily_rate.
Catalog0 ==
    [event_date  |-> [e \in EventIds |-> IF e = "e1" THEN 1 ELSE 2],
     event_name  |-> [e \in EventIds |-> IF e = "e1" THEN "Gala" ELSE "Expo"],
     cost_center |-> [e \in EventIds |-> IF e = "e1" THEN Str("A") ELSE NULL],
     crew_name   |-> [c \in CrewIds |-> IF c = "c1" THEN "Ann" ELSE "Bob"],
     hourly_rate |-> [c \in CrewIds |-> IF c = "c1" THEN Num(20) ELSE NULL],
     daily_rate  |-> [q \in EquipmentIds |-> IF q = "q1" THEN Num(25) ELSE NULL]]

\* a row of table users as INSERT INTO users builds it: is_active DEFAULT
\* true, failed_login_attempts DEFAULT 0, locked_until null.  password
\* stands for the text whose hash is password_hash.
UserRow(id, email, password, role) ==
    [id |-> id, email |-> email, password |-> password, role |-> role,
     is_active |-> TRUE, failed_login_attempts |-> 0, locked_until |-> NULL]

\* the users rows of the callers that hold a token
Users0 ==
    { UserRow(1, "admin@x", "pw1", "admin"),
      UserRow(2, "sched@x", "pw2", "scheduler"),
      UserRow(3, "crew@x", "pw3", "crew"),
      [UserRow(4, "off@x", "pw4", "scheduler") EXCEPT !.is_active = FALSE] }

\* no request is in flight
NoneInFlight == [r \in {} |-> NoRequest]

\* the users table and the clock where every request is served in one step
Idle ==
    /\ users = Users0
    /\ now = 0
    /\ inflight = NoneInFlight

Init ==
    /\ events = EventIds
    /\ crew_members = [c \in CrewIds |-> c = "c1"]
    /\ equipment = [q \in EquipmentIds |-> q = "q1"]
    /\ crew_assignments = {}
    /\ equipment_assignments = {}
    /\ seq = 0
    /\ resp = Response("none", 0, "")
    /\ request = NoRequest
    /\ catalog = Catalog0
    /\ Idle

(***************************************************************************)
(* Middleware.                                                             *)
(***************************************************************************)
\* authenticate: 0 when the request passes, else the status it is ended with
authenticate(actor) ==
    IF ~actor.token THEN 401
    ELSE IF ~actor.is_active THEN 401
    ELSE 0

\* authorize(...roles)
authorize(roles, actor) == IF actor.role \in roles THEN 0 ELSE 403

isAdmin(actor) == authorize({"admin"}, actor)
\* a faulty variant of isScheduler: every role passes
isSchedulerAnyRole(actor) == authorize({"admin", "scheduler", "crew"}, actor)

isScheduler(actor) == authorize({"admin", "scheduler"}, actor)

\* the status the middleware chain in front of a route ends the request
\* with, 0 when the handler runs; guard: the role check's status; invalid:
\* the validator chain collected an error
Gate(actor, guard, invalid) ==
    IF authenticate(actor) # 0 THEN authenticate(actor)
    ELSE IF guard # 0 THEN guard
    ELSE IF invalid THEN 400
    ELSE 0

GateText(status) ==
    CASE status = 401 -> "Not authenticated"
      [] status = 403 -> "Insufficient permissions"
      [] OTHER -> "validation errors"

(***************************************************************************)
(* express-validator checks on the values of the model.  optional() skips  *)
(* a field only when it is undefined.                                      *)
(***************************************************************************)
Times == {"09:00", "17:00"}
NumericTexts == {"0", "1", "2", "10"}

isUUID(v) ==
    v \in {Str(i) : i \in EventIds \cup {NoEvent} \cup CrewIds \cup {NoCrew}
                        \cup EquipmentIds \cup {NoEquipment}
                        \cup Positions \cup {NoPosition}}
\* matches(/^\d{2}:\d{2}(:\d{2})?$/)
isTime(v) == v \in {Str(t) : t \in Times}
\* isFloat({ min: 0 })
isFloatMin0(v) ==
    \/ v[1] = "number" /\ v[2] >= 0
    \/ v \in {Str(t) : t \in NumericTexts}
\* a faulty variant of isIntMin1: isInt({ min: 0 })
isIntMin0(v) ==
    \/ v[1] = "number" /\ v[2] >= 0
    \/ v \in {Str(t) : t \in NumericTexts}

\* isInt({ min: 1 })
isIntMin1(v) ==
    \/ v[1] = "number" /\ v[2] >= 1
    \/ v \in {Str(t) : t \in NumericTexts \ {"0"}}
\* isIn(['pending', 'confirmed', 'declined', 'no_show', 'completed'])
isStatus(v) == v \in {Str(s) : s \in StatusValues}

\* body('notes').optional().trim(): the sanitizer rewrites req.body.notes
Sanitize(body) ==
    IF "notes" \in DOMAIN body
    THEN [body EXCEPT !["notes"] = Trim(body["notes"])]
    ELSE body

(***************************************************************************)
(* The store's own checks on a statement's parameters and rows.            *)
(***************************************************************************)
\* a parameter the column's type accepts (else the statement ends with
\* invalid_text_representation before it touches a row)
sqlUUID(v) == v = NULL \/ isUUID(v)
sqlTime(v) == v = NULL \/ isTime(v)
sqlNumeric(v) == v = NULL \/ v[1] = "number" \/ v \in {Str(t) : t \in NumericTexts}

ColumnAccepts(column, v) ==
    CASE column = "position_id" -> sqlUUID(v)
      [] column \in {"call_time", "end_time"} -> sqlTime(v)
      [] column \in {"rate_override", "quantity"} -> sqlNumeric(v)
      [] OTHER -> TRUE

\* params: column -> parameter value
Malformed(params) == \E c \in DOMAIN params : ~ColumnAccepts(c, params[c])

\* position_id UUID REFERENCES positions(id)
PositionExists(v) == v = NULL \/ v \in {Str(p) : p \in Positions}

\* REFERENCES events(id) / crew_members(id) / positions(id)
CrewForeignKeysHold(S, row) ==
    /\ row.event_id \in S.events
    /\ row.crew_member_id \in DOMAIN S.crew_members
    /\ PositionExists(row.position_id)

\* a faulty variant of CrewPairTaken: the index is on crew_member_id alone
CrewPairTakenByMember(rows, row) ==
    \E a \in rows : a.crew_member_id = row.crew_member_id

\* UNIQUE(event_id, crew_member_id)
CrewPairTaken(rows, row) ==
    \E a \in rows :
        a.event_id = row.event_id /\ a.crew_member_id = row.crew_member_id

\* a faulty variant of CrewInsertError: the table has no unique index
CrewInsertErrorNoUnique(S, row) ==
    IF Malformed(row) THEN "22P02"
    ELSE IF ~CrewForeignKeysHold(S, row) THEN "23503"
    ELSE ""

\* the SQLSTATE a plain INSERT INTO crew_assignments ends with, "" when the
\* row is stored: a malformed parameter, then the unique index, then the
\* foreign keys
CrewInsertError(S, row) ==
    IF Malformed(row) THEN "22P02"
    ELSE IF CrewPairTaken(S.crew_assignments, row) THEN "23505"
    ELSE IF ~CrewForeignKeysHold(S, row) THEN "23503"
    ELSE ""

\* errorHandler: the response to an error a handler passes to next()
errorHandler(op, code) ==
    CASE code = "23505" -> Response(op, 409, "A record with this value already exists")
      [] code = "23503" -> Response(op, 400, "Referenced record does not exist")
      [] OTHER -> Response(op, 500, "Internal server error")

\* a row of crew_assignments as an INSERT builds it: status takes the
\* column's DEFAULT 'pending'
CrewRow(id, event_id, crew_member_id, position_id, call_time, end_time, rate_override, notes) ==
    [id |-> id, event_id |-> event_id, crew_member_id |-> crew_member_id,
     position_id |-> position_id, call_time |-> call_time,
     end_time |-> end_time, rate_override |-> ToNumeric(rate_override),
     status |-> Str("pending"), notes |-> notes]

(***************************************************************************)
(* POST /crew                                                              *)
(***************************************************************************)
PostCrewInvalid(body) ==
    ~ /\ isUUID(Get(body, "event_id"))
      /\ isUUID(Get(body, "crew_member_id"))
      /\ "position_id" \in DOMAIN body => isUUID(body["position_id"])
      /\ "call_time" \in DOMAIN body => isTime(body["call_time"])
      /\ "end_time" \in DOMAIN body => isTime(body["end_time"])
      /\ "rate_override" \in DOMAIN body => isFloatMin0(body["rate_override"])

\* SELECT id FROM events WHERE id = $1
EventExists(S, event_id) == event_id \in S.events

\* a faulty variant of CrewMemberActive: the query lacks AND is_active = true
CrewMemberExists(S, crew_member_id) ==
    crew_member_id \in DOMAIN S.crew_members

\* SELECT id FROM crew_members WHERE id = $1 AND is_active = true
CrewMemberActive(S, crew_member_id) ==
    /\ crew_member_id \in DOMAIN S.crew_members
    /\ S.crew_members[crew_member_id]

PostCrewHandler(S, req) ==
    LET event_id == req["event_id"][2]
        crew_member_id == req["crew_member_id"][2]
        row == CrewRow(S.seq + 1, event_id, crew_member_id,
                       OrElse(Get(req, "position_id"), NULL),
                       OrElse(Get(req, "call_time"), NULL),
                       OrElse(Get(req, "end_time"), NULL),
                       OrElse(Get(req, "rate_override"), NULL),
                       OrElse(Get(req, "notes"), NULL))
        code == CrewInsertError(S, row)
    IN  IF ~EventExists(S, event_id)
        THEN Outcome(Response("POST /crew", 404, "Event not found"), S)
        ELSE IF ~CrewMemberActive(S, crew_member_id)
        THEN Outcome(Response("POST /crew", 404,
                              "Crew member not found or inactive"), S)
        ELSE IF code = "23505"
        THEN Outcome(Response("POST /crew", 409,
                              "Crew member already assigned to this event"), S)
        ELSE IF code # ""
        THEN Outcome(errorHandler("POST /crew", code), S)
        ELSE Outcome([Response("POST /crew", 201, "") EXCEPT !.assignment = row],
                     [S EXCEPT !.crew_assignments = @ \cup {row},
                               !.seq = @ + 1])

PostCrewOutcome(S, actor, body) ==
    LET gate == Gate(actor, isScheduler(actor), PostCrewInvalid(body))
    IN  IF gate # 0
        THEN Outcome(Response("POST /crew", gate, GateText(gate)), S)
        ELSE PostCrewHandler(S, Sanitize(body))

(***************************************************************************)
(* PUT /crew/:id                                                           *)
(***************************************************************************)
allowedFields ==
    <<"position_id", "call_time", "end_time", "rate_override", "status", "notes">>

PutCrewInvalid(body) ==
    "status" \in DOMAIN body /\ ~isStatus(body["status"])

\* a faulty variant of CrewUpdates: every allowed field is written, an omitted one
\* as null
CrewUpdatesAllFields(req) ==
    [f \in {allowedFields[i] : i \in 1..Len(allowedFields)} |->
        IF Get(req, f) \in {Str(""), Undefined} THEN NULL ELSE req[f]]

\* the loop over allowedFields: the columns of the SET clause and their values
CrewUpdates(req) ==
    [f \in {allowedFields[i] : i \in 1..Len(allowedFields)} \cap DOMAIN req |->
        IF req[f] = Str("") THEN NULL ELSE req[f]]

\* a faulty variant of CrewRowUpdated: an update that names no status
\* confirms the assignment
CrewRowUpdatedConfirms(row, updates) ==
    [c \in DOMAIN row |->
        IF c \in DOMAIN updates
        THEN IF c = "rate_override" THEN ToNumeric(updates[c]) ELSE updates[c]
        ELSE IF c = "status" THEN Str("confirmed") ELSE row[c]]

\* the row after UPDATE crew_assignments SET ... applied to it
CrewRowUpdated(row, updates) ==
    [c \in DOMAIN row |->
        IF c \in DOMAIN updates
        THEN IF c = "rate_override" THEN ToNumeric(updates[c]) ELSE updates[c]
        ELSE row[c]]

\* a faulty variant of PutCrewHandler: the row is looked up before the SET clause is
\* found empty
PutCrewHandlerLookupFirst(S, id, req) ==
    LET updates == CrewUpdates(req)
        hit == {a \in S.crew_assignments : a.id = id}
        old == CHOOSE a \in hit : TRUE
        new == CrewRowUpdated(old, updates)
    IN  IF hit = {}
        THEN Outcome(Response("PUT /crew/:id", 404, "Assignment not found"), S)
        ELSE IF DOMAIN updates = {}
        THEN Outcome(Response("PUT /crew/:id", 400, "No updates provided"), S)
        ELSE IF Malformed(updates)
        THEN Outcome(errorHandler("PUT /crew/:id", "22P02"), S)
        ELSE IF ~CrewForeignKeysHold(S, new)
        THEN Outcome(errorHandler("PUT /crew/:id", "23503"), S)
        ELSE Outcome([Response("PUT /crew/:id", 200, "") EXCEPT !.assignment = new],
                     [S EXCEPT !.crew_assignments = (@ \ hit) \cup {new}])

PutCrewHandler(S, id, req) ==
    LET updates == CrewUpdates(req)
        hit == {a \in S.crew_assignments : a.id = id}
        old == CHOOSE a \in hit : TRUE
        new == CrewRowUpdated(old, updates)
    IN  IF DOMAIN updates = {}
        THEN Outcome(Response("PUT /crew/:id", 400, "No updates provided"), S)
        ELSE IF Malformed(updates)
        THEN Outcome(errorHandler("PUT /crew/:id", "22P02"), S)
        ELSE IF hit = {}
        THEN Outcome(Response("PUT /crew/:id", 404, "Assignment not found"), S)
        ELSE IF ~CrewForeignKeysHold(S, new)
        THEN Outcome(errorHandler("PUT /crew/:id", "23503"), S)
        ELSE Outcome([Response("PUT /crew/:id", 200, "") EXCEPT !.assignment = new],
                     [S EXCEPT !.crew_assignments = (@ \ hit) \cup {new}])

PutCrewOutcome(S, actor, id, body) ==
    LET gate == Gate(actor, isScheduler(actor), PutCrewInvalid(body))
    IN  IF gate # 0
        THEN Outcome(Response("PUT /crew/:id", gate, GateText(gate)), S)
        ELSE PutCrewHandler(S, id, Sanitize(body))

(***************************************************************************)
(* DELETE /crew/:id                                                        *)
(***************************************************************************)
\* a faulty variant of DeleteCrewHandler: the DELETE names the crew member of the row
DeleteCrewHandlerByMember(S, id) ==
    LET hit == {a \in S.crew_assignments : a.id = id}
        gone == {a \in S.crew_assignments :
                    \E h \in hit : a.crew_member_id = h.crew_member_id}
    IN  IF hit = {}
        THEN Outcome(Response("DELETE /crew/:id", 404, "Assignment not found"), S)
        ELSE Outcome(Response("DELETE /crew/:id", 200,
                              "Assignment deleted successfully"),
                     [S EXCEPT !.crew_assignments = @ \ gone])

DeleteCrewHandler(S, id) ==
    LET hit == {a \in S.crew_assignments : a.id = id}
    IN  IF hit = {}
        THEN Outcome(Response("DELETE /crew/:id", 404, "Assignment not found"), S)
        ELSE Outcome(Response("DELETE /crew/:id", 200,
                              "Assignment deleted successfully"),
                     [S EXCEPT !.crew_assignments = @ \ hit])

DeleteCrewOutcome(S, actor, id) ==
    LET gate == Gate(actor, isScheduler(actor), FALSE)
    IN  IF gate # 0
        THEN Outcome(Response("DELETE /crew/:id", gate, GateText(gate)), S)
        ELSE DeleteCrewHandler(S, id)

(***************************************************************************)
(* POST /crew/bulk                                                         *)
(***************************************************************************)
PostCrewBulkInvalid(body) ==
    ~ /\ isUUID(Get(body, "event_id"))
      /\ "crew_member_ids" \in DOMAIN body
      /\ Len(body["crew_member_ids"]) >= 1
      /\ "position_id" \in DOMAIN body => isUUID(body["position_id"])

\* error.message of the store's error
SqlMessage(code) ==
    CASE code = "23503" -> "violates foreign key constraint"
      [] code = "22P02" -> "invalid input syntax"
      [] OTHER -> code

\* a faulty variant of BulkStep: ON CONFLICT ... DO UPDATE SET position_id, call_time
BulkStepUpsert(acc, req, crew_member_id) ==
    LET row == CrewRow(acc.store.seq + 1, req["event_id"][2], crew_member_id,
                       OrElse(Get(req, "position_id"), NULL),
                       OrElse(Get(req, "call_time"), NULL),
                       NULL, NULL, NULL)
        code == CrewInsertError(acc.store, row)
        hit == {a \in acc.store.crew_assignments :
                    a.event_id = row.event_id
                    /\ a.crew_member_id = row.crew_member_id}
    IN  IF code = "23505"
        THEN [store |-> [acc.store EXCEPT !.crew_assignments =
                            (@ \ hit) \cup
                            {[a EXCEPT !.position_id = row.position_id,
                                       !.call_time = row.call_time] : a \in hit}],
              results |-> [acc.results EXCEPT !.assigned = @ + 1]]
        ELSE IF code # ""
        THEN [acc EXCEPT !.results.errors =
                    Append(@, [crew_member_id |-> crew_member_id,
                               error |-> SqlMessage(code)])]
        ELSE [store |-> [acc.store EXCEPT !.crew_assignments = @ \cup {row},
                                          !.seq = @ + 1],
              results |-> [acc.results EXCEPT !.assigned = @ + 1]]

\* one pass of the loop body: INSERT ... ON CONFLICT (event_id,
\* crew_member_id) DO NOTHING for one id, then results.assigned++, or the
\* catch clause.  acc: [store, results]
BulkStep(acc, req, crew_member_id) ==
    LET row == CrewRow(acc.store.seq + 1, req["event_id"][2], crew_member_id,
                       OrElse(Get(req, "position_id"), NULL),
                       OrElse(Get(req, "call_time"), NULL),
                       NULL, NULL, NULL)
        code == CrewInsertError(acc.store, row)
    IN  IF code = "23505"
        THEN [acc EXCEPT !.results.assigned = @ + 1]
        ELSE IF code # ""
        THEN [acc EXCEPT !.results.errors =
                    Append(@, [crew_member_id |-> crew_member_id,
                               error |-> SqlMessage(code)])]
        ELSE [store |-> [acc.store EXCEPT !.crew_assignments = @ \cup {row},
                                          !.seq = @ + 1],
              results |-> [acc.results EXCEPT !.assigned = @ + 1]]

\* a faulty variant of BulkLoop: the try block encloses the loop, the first error
\* ends it
RECURSIVE BulkLoopAborting(_, _, _)
BulkLoopAborting(acc, req, ids) ==
    IF ids = <<>> \/ acc.results.errors # <<>> THEN acc
    ELSE BulkLoopAborting(BulkStep(acc, req, Head(ids)), req, Tail(ids))

\* for (const crew_member_id of crew_member_ids) { ... }
RECURSIVE BulkLoop(_, _, _)
BulkLoop(acc, req, ids) ==
    IF ids = <<>> THEN acc
    ELSE BulkLoop(BulkStep(acc, req, Head(ids)), req, Tail(ids))

PostCrewBulkHandler(S, req) ==
    LET done == BulkLoop([store |-> S, results |-> NoResults],
                         req, req["crew_member_ids"])
    IN  Outcome([Response("POST /crew/bulk", 200, "Assigned crew members")
                    EXCEPT !.results = done.results],
                done.store)

PostCrewBulkOutcome(S, actor, body) ==
    LET gate == Gate(actor, isScheduler(actor), PostCrewBulkInvalid(body))
    IN  IF gate # 0
        THEN Outcome(Response("POST /crew/bulk", gate, GateText(gate)), S)
        ELSE PostCrewBulkHandler(S, body)

(***************************************************************************)
(* Equipment assignments.                                                  *)
(***************************************************************************)
\* REFERENCES events(id) / equipment(id)
EquipmentForeignKeysHold(S, row) ==
    /\ row.event_id \in S.events
    /\ row.equipment_id \in DOMAIN S.equipment

\* UNIQUE(event_id, equipment_id)
EquipmentPairTaken(rows, row) ==
    \E a \in rows :
        a.event_id = row.event_id /\ a.equipment_id = row.equipment_id

EquipmentInsertError(S, row) ==
    IF Malformed(row) THEN "22P02"
    ELSE IF EquipmentPairTaken(S.equipment_assignments, row) THEN "23505"
    ELSE IF ~EquipmentForeignKeysHold(S, row) THEN "23503"
    ELSE ""

EquipmentRow(id, event_id, equipment_id, quantity, rate_override, notes) ==
    [id |-> id, event_id |-> event_id, equipment_id |-> equipment_id,
     quantity |-> ToNumeric(quantity),
     rate_override |-> ToNumeric(rate_override), notes |-> notes]

\* SELECT id FROM equipment WHERE id = $1 AND is_active = true
EquipmentActive(S, equipment_id) ==
    /\ equipment_id \in DOMAIN S.equipment
    /\ S.equipment[equipment_id]

\* POST /equipment
PostEquipmentInvalid(body) ==
    ~ /\ isUUID(Get(body, "event_id"))
      /\ isUUID(Get(body, "equipment_id"))
      /\ "quantity" \in DOMAIN body => isIntMin1(body["quantity"])
      /\ "rate_override" \in DOMAIN body => isFloatMin0(body["rate_override"])

PostEquipmentHandler(S, req) ==
    LET event_id == req["event_id"][2]
        equipment_id == req["equipment_id"][2]
        row == EquipmentRow(S.seq + 1, event_id, equipment_id,
                            OrElse(Get(req, "quantity"), Num(1)),
                            OrElse(Get(req, "rate_override"), NULL),
                            OrElse(Get(req, "notes"), NULL))
        code == EquipmentInsertError(S, row)
    IN  IF ~EventExists(S, event_id)
        THEN Outcome(Response("POST /equipment", 404, "Event not found"), S)
        ELSE IF ~EquipmentActive(S, equipment_id)
        THEN Outcome(Response("POST /equipment", 404,
                              "Equipment not found or inactive"), S)
        ELSE IF code = "23505"
        THEN Outcome(Response("POST /equipment", 409,
                              "Equipment already assigned to this event"), S)
        ELSE IF code # ""
        THEN Outcome(errorHandler("POST /equipment", code), S)
        ELSE Outcome([Response("POST /equipment", 201, "")
                        EXCEPT !.assignment = row],
                     [S EXCEPT !.equipment_assignments = @ \cup {row},
                               !.seq = @ + 1])

PostEquipmentOutcome(S, actor, body) ==
    LET gate == Gate(actor, isScheduler(actor), PostEquipmentInvalid(body))
    IN  IF gate # 0
        THEN Outcome(Response("POST /equipment", gate, GateText(gate)), S)
        ELSE PostEquipmentHandler(S, Sanitize(body))

\* PUT /equipment/:id
PutEquipmentInvalid(body) ==
    "quantity" \in DOMAIN body /\ ~isIntMin1(body["quantity"])

\* the three `if (x !== undefined)` blocks: columns of the SET clause
EquipmentUpdates(req) ==
    [f \in {"quantity", "rate_override", "notes"} \cap DOMAIN req |->
        CASE f = "quantity" -> req[f]
          [] f = "rate_override" -> IF req[f] = Str("") THEN NULL ELSE req[f]
          [] OTHER -> OrElse(req[f], NULL)]

EquipmentRowUpdated(row, updates) ==
    [c \in DOMAIN row |->
        IF c \in DOMAIN updates
        THEN IF c \in {"quantity", "rate_override"}
             THEN ToNumeric(updates[c]) ELSE updates[c]
        ELSE row[c]]

PutEquipmentHandler(S, id, req) ==
    LET updates == EquipmentUpdates(req)
        hit == {a \in S.equipment_assignments : a.id = id}
        old == CHOOSE a \in hit : TRUE
        new == EquipmentRowUpdated(old, updates)
    IN  IF DOMAIN updates = {}
        THEN Outcome(Response("PUT /equipment/:id", 400, "No updates provided"), S)
        ELSE IF Malformed(updates)
        THEN Outcome(errorHandler("PUT /equipment/:id", "22P02"), S)
        ELSE IF hit = {}
        THEN Outcome(Response("PUT /equipment/:id", 404, "Assignment not found"), S)
        ELSE Outcome([Response("PUT /equipment/:id", 200, "")
                        EXCEPT !.assignment = new],
                     [S EXCEPT !.equipment_assignments = (@ \ hit) \cup {new}])

PutEquipmentOutcome(S, actor, id, body) ==
    LET gate == Gate(actor, isScheduler(actor), PutEquipmentInvalid(body))
    IN  IF gate # 0
        THEN Outcome(Response("PUT /equipment/:id", gate, GateText(gate)), S)
        ELSE PutEquipmentHandler(S, id, Sanitize(body))

\* DELETE /equipment/:id
DeleteEquipmentHandler(S, id) ==
    LET hit == {a \in S.equipment_assignments : a.id = id}
    IN  IF hit = {}
        THEN Outcome(Response("DELETE /equipment/:id", 404,
                              "Assignment not found"), S)
        ELSE Outcome(Response("DELETE /equipment/:id", 200,
                              "Assignment deleted successfully"),
                     [S EXCEPT !.equipment_assignments = @ \ hit])

DeleteEquipmentOutcome(S, actor, id) ==
    LET gate == Gate(actor, isScheduler(actor), FALSE)
    IN  IF gate # 0
        THEN Outcome(Response("DELETE /equipment/:id", gate, GateText(gate)), S)
        ELSE DeleteEquipmentHandler(S, id)

(***************************************************************************)
(* Requests.                                                               *)
(***************************************************************************)
\* the JSON object without members
Empty == [k \in {} |-> NULL]

\* the optional members of the POST /crew bodies
PostCrewOptions ==
    { Empty,
      [position_id |-> Str("p1"), call_time |-> Str("09:00"),
       end_time |-> Str("17:00"), rate_override |-> Num(10), notes |-> Str("n")],
      [rate_override |-> Num(0), notes |-> Str(" ")],
      [rate_override |-> Num(-1)] }

PostCrewBodies ==
    { [event_id |-> Str(e), crew_member_id |-> Str(c)] @@ o :
        e \in EventIds \cup {NoEvent}, c \in CrewIds \cup {NoCrew},
        o \in PostCrewOptions }

\* the arrays of at most n crew member ids
RECURSIVE IdLists(_)
IdLists(n) ==
    IF n = 0 THEN {<<>>}
    ELSE LET shorter == IdLists(n - 1)
         IN  shorter \cup {Append(l, c) : l \in shorter, c \in CrewIds \cup {NoCrew}}

PostCrewBulkOptions ==
    { Empty, [position_id |-> Str("p1"), call_time |-> Str("09:00")] }

\* every array for the events of the store; for the id that names no event,
\* where every INSERT fails alike, the arrays of at most one id
PostCrewBulkBodies ==
    { [event_id |-> Str(e), crew_member_ids |-> l] @@ o :
        e \in EventIds, l \in IdLists(MaxBulk), o \in PostCrewBulkOptions }
    \cup
    { [event_id |-> Str(NoEvent), crew_member_ids |-> l] : l \in IdLists(1) }

PutCrewBodies ==
    { Empty,
      [status |-> Str("confirmed")],
      [status |-> Str("pending")],
      [status |-> Str("")] }

PostEquipmentOptions ==
    { Empty,
      [quantity |-> Num(2), rate_override |-> Num(10), notes |-> Str("n")],
      [quantity |-> Num(0)] }

PostEquipmentBodies ==
    { [event_id |-> Str(e), equipment_id |-> Str(q)] @@ o :
        e \in EventIds \cup {NoEvent}, q \in EquipmentIds \cup {NoEquipment},
        o \in PostEquipmentOptions }

PutEquipmentBodies ==
    { Empty,
      [quantity |-> Num(2)],
      [quantity |-> Num(0)] }

\* the ids a request names in its path: those drawn so far and one that was
\* never drawn
AssignmentIds == 0..MaxRows

\* the actors that pass authenticate and isScheduler
Schedulers == {a \in Actors : Gate(a, isScheduler(a), FALSE) = 0}

\* The bodies an actor sends.  A handler reads of req.user only the id, for
\* created_by, which rows of the model do not carry: the admin sends the
\* bodies without optional members, the scheduler all of them.
BodiesFor(actor, bodies) ==
    IF actor.role = "admin"
    THEN {b \in bodies :
            DOMAIN b \subseteq {"event_id", "crew_member_id", "equipment_id",
                                "crew_member_ids"}}
    ELSE bodies

(***************************************************************************)
(* Actions: a request is served, the store and the response become its     *)
(* outcome.  The store generates at most MaxRows assignment ids.           *)
(***************************************************************************)
Serve(out) ==
    /\ out.store.seq <= MaxRows \/ out.store.seq = seq
    /\ events' = out.store.events
    /\ crew_members' = out.store.crew_members
    /\ equipment' = out.store.equipment
    /\ crew_assignments' = out.store.crew_assignments
    /\ equipment_assignments' = out.store.equipment_assignments
    /\ seq' = out.store.seq
    /\ resp' = out.resp
    /\ UNCHANGED <<request, catalog,
                   users, now, inflight>>

PostCrew(actor, body) == Serve(PostCrewOutcome(Store, actor, body))
PutCrew(actor, id, body) == Serve(PutCrewOutcome(Store, actor, id, body))
DeleteCrew(actor, id) == Serve(DeleteCrewOutcome(Store, actor, id))
PostCrewBulk(actor, body) == Serve(PostCrewBulkOutcome(Store, actor, body))
PostEquipment(actor, body) == Serve(PostEquipmentOutcome(Store, actor, body))
PutEquipment(actor, id, body) == Serve(PutEquipmentOutcome(Store, actor, id, body))
DeleteEquipment(actor, id) == Serve(DeleteEquipmentOutcome(Store, actor, id))

Next ==
    \/ \E actor \in Schedulers : \E body \in BodiesFor(actor, PostCrewBodies) :
          PostCrew(actor, body)
    \/ \E actor \in Schedulers, id \in AssignmentIds :
          \E body \in BodiesFor(actor, PutCrewBodies) : PutCrew(actor, id, body)
    \/ \E actor \in Schedulers, id \in AssignmentIds : DeleteCrew(actor, id)
    \/ \E actor \in Schedulers : \E body \in BodiesFor(actor, PostCrewBulkBodies) :
          PostCrewBulk(actor, body)
    \/ \E actor \in Schedulers : \E body \in BodiesFor(actor, PostEquipmentBodies) :
          PostEquipment(actor, body)
    \/ \E actor \in Schedulers, id \in AssignmentIds :
          \E body \in BodiesFor(actor, PutEquipmentBodies) :
             PutEquipment(actor, id, body)
    \/ \E actor \in Schedulers, id \in AssignmentIds : DeleteEquipment(actor, id)

Spec == Init /\ [][Next]_vars

(***************************************************************************)
(* One update request against a loaded store: the request is drawn in the  *)
(* initial state, the action serves it.                                    *)
(***************************************************************************)
\* two crew assignments and two equipment assignments, one of each with
\* every column set, the other with the optional columns null
LoadedCrewAssignments ==
    { [CrewRow(1, "e1", "c1", Str("p1"), Str("09:00"), Str("17:00"), Num(10),
               Str("n")) EXCEPT !.status = Str("confirmed")],
      CrewRow(2, "e2", "c1", NULL, NULL, NULL, NULL, NULL) }

LoadedEquipmentAssignments ==
    { EquipmentRow(3, "e1", "q1", Num(2), Num(10), Str("n")),
      EquipmentRow(4, "e2", "q1", Num(1), NULL, NULL) }

LoadedStore ==
    [events |-> EventIds,
     crew_members |-> [c \in CrewIds |-> c = "c1"],
     equipment |-> [q \in EquipmentIds |-> q = "q1"],
     crew_assignments |-> LoadedCrewAssignments,
     equipment_assignments |-> LoadedEquipmentAssignments,
     seq |-> 4]

\* the values a PUT /crew/:id body gives a member
PutCrewValues ==
    [position_id |-> {Str(""), Str("p2"), Str(NoPosition)},
     call_time |-> {Str(""), Str("17:00")},
     end_time |-> {Str(""), Str("09:00")},
     rate_override |-> {Str(""), Num(0), Num(2)},
     status |-> {Str("")} \cup {Str(v) : v \in StatusValues},
     notes |-> {Str(""), Str(" "), Str("m")}]

\* the values a PUT /equipment/:id body gives a member
PutEquipmentValues ==
    [quantity |-> {Str(""), Num(0), Num(3), Str("2")},
     rate_override |-> {Str(""), Num(0), Num(2)},
     notes |-> {Str(""), Str(" "), Str("m")}]

\* the JSON objects with any of the members keys, each with one of its values
RECURSIVE BodiesOver(_, _)
BodiesOver(values, keys) ==
    IF keys = {} THEN {Empty}
    ELSE LET k == CHOOSE x \in keys : TRUE
             rest == BodiesOver(values, keys \ {k})
         IN  rest \cup {b @@ (k :> v) : b \in rest, v \in values[k]}

Bodies(values) == BodiesOver(values, DOMAIN values)

\* a body whose only member is none of the fields an update reads
Unrecognised == [event_id |-> Str("e2")]

UpdateRequests ==
    { [op |-> "PUT /crew/:id", actor |-> a, id |-> i, body |-> b] :
        a \in Schedulers, i \in {0, 1, 2},
        b \in Bodies(PutCrewValues) \cup {Unrecognised} }
    \cup
    { [op |-> "PUT /equipment/:id", actor |-> a, id |-> i, body |-> b] :
        a \in Schedulers, i \in {0, 3, 4},
        b \in Bodies(PutEquipmentValues) \cup {Unrecognised} }

InitUpdate ==
    /\ events = LoadedStore.events
    /\ crew_members = LoadedStore.crew_members
    /\ equipment = LoadedStore.equipment
    /\ crew_assignments = LoadedStore.crew_assignments
    /\ equipment_assignments = LoadedStore.equipment_assignments
    /\ seq = LoadedStore.seq
    /\ resp = Response("none", 0, "")
    /\ request \in UpdateRequests
    /\ catalog = Catalog0
    /\ Idle

UpdateCrew ==
    /\ resp.op = "none"
    /\ request.op = "PUT /crew/:id"
    /\ Serve(PutCrewOutcome(Store, request.actor, request.id, request.body))

UpdateEquipment ==
    /\ resp.op = "none"
    /\ request.op = "PUT /equipment/:id"
    /\ Serve(PutEquipmentOutcome(Store, request.actor, request.id, request.body))

NextUpdate == UpdateCrew \/ UpdateEquipment

SpecUpdate == InitUpdate /\ [][NextUpdate]_vars

(***************************************************************************)
(* Properties.  A property of a handler is stated of its outcome, for      *)
(* every request, in every reachable state of the store.                   *)
(***************************************************************************)
\* the rows of a table for one (event, resource) pair
CrewPair(rows, e, c) ==
    {a \in rows : a.event_id = e /\ a.crew_member_id = c}
EquipmentPair(rows, e, q) ==
    {a \in rows : a.event_id = e /\ a.equipment_id = q}

\* C1: in every reachable state there is at most one crew assignment per
\* (event, crew member) pair and at most one equipment assignment per
\* (event, equipment) pair.
C1_OneAssignmentPerPair ==
    /\ \A a, b \in crew_assignments :
          (a.event_id = b.event_id /\ a.crew_member_id = b.crew_member_id)
              => a = b
    /\ \A a, b \in equipment_assignments :
          (a.event_id = b.event_id /\ a.equipment_id = b.equipment_id)
              => a = b

\* a duplicate create was refused while both tables hold a row
C1_Witness ==
    /\ resp.status = 409
    /\ crew_assignments # {}
    /\ equipment_assignments # {}

\* C2: POST /crew for an existing event and an active crew member with no
\* assignment together answers 201 and stores exactly one row for the pair,
\* leaving the other rows alone; the same request again answers 409 and
\* leaves the store as it was.
C2_CreateThenConflict ==
    \A actor \in Schedulers, body \in PostCrewBodies :
        LET e == body["event_id"][2]
            c == body["crew_member_id"][2]
            first == PostCrewOutcome(Store, actor, body)
            second == PostCrewOutcome(first.store, actor, body)
            made == CrewPair(first.store.crew_assignments, e, c)
        IN  ( /\ ~PostCrewInvalid(body)
              /\ PositionExists(OrElse(Get(body, "position_id"), NULL))
              /\ e \in events
              /\ c \in DOMAIN crew_members /\ crew_members[c]
              /\ CrewPair(crew_assignments, e, c) = {} )
            => /\ first.resp.status = 201
               /\ Cardinality(made) = 1
               /\ first.store.crew_assignments \ made = crew_assignments
               /\ first.store.equipment_assignments = equipment_assignments
               /\ second.resp.status = 409
               /\ second.store = first.store

\* a create was refused as a duplicate
C2_Witness ==
    /\ resp.op = "POST /crew"
    /\ resp.status = 409
    /\ resp.text = "Crew member already assigned to this event"

\* C3: POST /crew answers 404 when the event does not exist, and 404 when the
\* crew member does not exist or is inactive, the event being looked up first
\* and both before the insert could hit the unique index; POST /equipment
\* does the same for equipment.  The store is left as it was.
C3_NotFoundLeavesStore ==
    /\ \A actor \in Schedulers, body \in PostCrewBodies :
        LET e == body["event_id"][2]
            c == body["crew_member_id"][2]
            out == PostCrewOutcome(Store, actor, body)
        IN  ~PostCrewInvalid(body) =>
            /\ e \notin events =>
                  /\ out.resp.status = 404
                  /\ out.resp.text = "Event not found"
                  /\ out.store = Store
            /\ (e \in events /\ ~(c \in DOMAIN crew_members /\ crew_members[c])) =>
                  /\ out.resp.status = 404
                  /\ out.resp.text = "Crew member not found or inactive"
                  /\ out.store = Store
    /\ \A actor \in Schedulers, body \in PostEquipmentBodies :
        LET e == body["event_id"][2]
            q == body["equipment_id"][2]
            out == PostEquipmentOutcome(Store, actor, body)
        IN  ~PostEquipmentInvalid(body) =>
            /\ e \notin events =>
                  /\ out.resp.status = 404
                  /\ out.resp.text = "Event not found"
                  /\ out.store = Store
            /\ (e \in events /\ ~(q \in DOMAIN equipment /\ equipment[q])) =>
                  /\ out.resp.status = 404
                  /\ out.resp.text = "Equipment not found or inactive"
                  /\ out.store = Store

\* a create for a missing or inactive crew member was refused while an
\* inactive member holds an assignment
C3_Witness ==
    /\ resp.op = "POST /crew"
    /\ resp.status = 404
    /\ resp.text = "Crew member not found or inactive"
    /\ \E a \in crew_assignments : ~crew_members[a.crew_member_id]

\* C4: every crew assignment in the store refers to an event that exists and
\* to a crew member that exists and is active (no request of this
\* specification deletes an event or deactivates a crew member, so a row that
\* refers to an inactive member was created for an inactive member).
C4_NoAssignmentForInactiveCrew ==
    \A a \in crew_assignments :
        /\ a.event_id \in events
        /\ a.crew_member_id \in DOMAIN crew_members
        /\ crew_members[a.crew_member_id]

\* a bulk request the validators pass and whose shared values the store
\* accepts
BulkAccepted(body) ==
    /\ ~PostCrewBulkInvalid(body)
    /\ PositionExists(OrElse(Get(body, "position_id"), NULL))

\* C5: POST /crew/bulk always answers 200 with a result object, whatever
\* happens to single ids.  Every id of the list whose insert can succeed ends
\* with an assignment for its pair, wherever a failing id stands in the list;
\* the error list names exactly the failing ids, in list order, each under its
\* own id; no row that was there before is lost.
C5_BulkItemsIndependent ==
    \A actor \in Schedulers, body \in PostCrewBulkBodies :
        LET e == body["event_id"][2]
            ids == body["crew_member_ids"]
            out == PostCrewBulkOutcome(Store, actor, body)
            errors == out.resp.results.errors
            Fails(c) == e \notin events \/ c \notin DOMAIN crew_members
        IN  BulkAccepted(body) =>
            /\ out.resp.status = 200
            /\ \A i \in 1..Len(ids) :
                  ~Fails(ids[i]) =>
                      CrewPair(out.store.crew_assignments, e, ids[i]) # {}
            /\ [i \in 1..Len(errors) |-> errors[i].crew_member_id]
                  = SelectSeq(ids, Fails)
            /\ \A i \in 1..Len(errors) : errors[i].error # ""
            /\ crew_assignments \subseteq out.store.crew_assignments

\* a bulk request had one id fail and another id assigned
C5_Witness ==
    /\ resp.op = "POST /crew/bulk"
    /\ resp.status = 200
    /\ Len(resp.results.errors) = 1
    /\ resp.results.errors[1].crew_member_id = NoCrew
    /\ resp.results.assigned = 1
    /\ \E a \in crew_assignments : a.id = seq

\* C6: POST /crew/bulk leaves an id alone whose crew member is already
\* assigned to the event: the pair still has its one row, equal in every
\* field to the row it had, and the id is not in the error list.
C6_BulkSkipsExistingPair ==
    \A actor \in Schedulers, body \in PostCrewBulkBodies :
        LET e == body["event_id"][2]
            ids == body["crew_member_ids"]
            out == PostCrewBulkOutcome(Store, actor, body)
            errors == out.resp.results.errors
        IN  BulkAccepted(body) =>
            \A i \in 1..Len(ids) :
                CrewPair(crew_assignments, e, ids[i]) # {} =>
                    /\ CrewPair(out.store.crew_assignments, e, ids[i])
                           = CrewPair(crew_assignments, e, ids[i])
                    /\ \A j \in 1..Len(errors) :
                           errors[j].crew_member_id # ids[i]

\* a bulk request created no row and reported no error, and the one row of
\* the table still has the rate override only POST /crew could have given it
C6_Witness ==
    /\ resp.op = "POST /crew/bulk"
    /\ resp.status = 200
    /\ resp.results.errors = <<>>
    /\ resp.results.assigned >= 1
    /\ seq = 1
    /\ \E a \in crew_assignments : a.id = 1 /\ a.rate_override = Num(10)

\* C7: the count `assigned` that POST /crew/bulk reports is the number of
\* assignments the request created, and assigned plus the number of errors is
\* at most the number of ids supplied.
C7_AssignedCountsCreatedRows ==
    [][ (resp'.op = "POST /crew/bulk" /\ resp'.status = 200) =>
          /\ resp'.results.assigned
                 = Cardinality(crew_assignments' \ crew_assignments)
          /\ resp'.results.assigned + Len(resp'.results.errors) <= MaxBulk
      ]_vars

\* C10: DELETE /crew/:id answers 404 and changes nothing when no assignment
\* has the id; otherwise it answers 200 and removes that one row, leaving the
\* events, the crew members, the equipment and every other assignment as they
\* were, and the same request again answers 404.  DELETE /equipment/:id does
\* the same for equipment assignments.
C10_DeleteRemovesOneRow ==
    \A actor \in Schedulers, id \in AssignmentIds :
        /\ LET hit == {a \in crew_assignments : a.id = id}
               out == DeleteCrewOutcome(Store, actor, id)
               again == DeleteCrewOutcome(out.store, actor, id)
           IN  IF hit = {}
               THEN out.resp.status = 404 /\ out.store = Store
               ELSE /\ out.resp.status = 200
                    /\ Cardinality(hit) = 1
                    /\ out.store
                         = [Store EXCEPT !.crew_assignments = @ \ hit]
                    /\ again.resp.status = 404
                    /\ again.store = out.store
        /\ LET hit == {a \in equipment_assignments : a.id = id}
               out == DeleteEquipmentOutcome(Store, actor, id)
               again == DeleteEquipmentOutcome(out.store, actor, id)
           IN  IF hit = {}
               THEN out.resp.status = 404 /\ out.store = Store
               ELSE /\ out.resp.status = 200
                    /\ Cardinality(hit) = 1
                    /\ out.store
                         = [Store EXCEPT !.equipment_assignments = @ \ hit]
                    /\ again.resp.status = 404
                    /\ again.store = out.store

\* a crew assignment was deleted while another one of the same crew member
\* stays
C10_Witness ==
    /\ resp.op = "DELETE /crew/:id"
    /\ resp.status = 200
    /\ seq = 2
    /\ Cardinality(crew_assignments) = 1
    /\ \A a \in crew_assignments : a.crew_member_id = "c1"

\* the fields an update of each kind of assignment reads
CrewFields ==
    {"position_id", "call_time", "end_time", "rate_override", "status", "notes"}
EquipmentFields == {"quantity", "rate_override", "notes"}

\* what a field supplied with value v is expected to hold afterwards: null for
\* an empty value (notes are trimmed first), else the value, a number for the
\* numeric columns
Expected(f, v) ==
    LET t == IF f = "notes" THEN Trim(v) ELSE v
    IN  IF t = Str("") THEN NULL
        ELSE IF f \in {"rate_override", "quantity"} THEN ToNumeric(t)
        ELSE t

\* the row expected after an update with this body
ExpectedRow(old, fields, body) ==
    [c \in DOMAIN old |->
        IF c \in fields \cap DOMAIN body THEN Expected(c, body[c]) ELSE old[c]]

C9_UpdateRefusals ==
    resp.op # "none" =>
        LET crew == request.op = "PUT /crew/:id"
            body == request.body
            fields == IF crew THEN CrewFields ELSE EquipmentFields
            invalid == IF crew THEN PutCrewInvalid(body)
                               ELSE PutEquipmentInvalid(body)
            rows == IF crew THEN LoadedCrewAssignments
                            ELSE LoadedEquipmentAssignments
            hit == {a \in rows : a.id = request.id}
        IN  /\ fields \cap DOMAIN body = {} =>
                /\ resp.status = 400
                /\ resp.text = "No updates provided"
                /\ Store = LoadedStore
            /\ (fields \cap DOMAIN body # {} /\ ~invalid /\ hit = {}) =>
                /\ resp.status = 404
                /\ resp.text = "Assignment not found"
                /\ Store = LoadedStore

\* an update without an updatable field was refused for an id no assignment
\* has
C9_Witness ==
    /\ request.op = "PUT /crew/:id"
    /\ request.id = 0
    /\ request.body = Unrecognised
    /\ resp.status = 400
    /\ resp.text = "No updates provided"

(***************************************************************************)
(* Cost calculator.  Hours may be fractions (minutes / 60) and so may       *)
(* amounts of money: an amount is held exactly, as a count of 1/Scale of    *)
(* the currency unit.                                                      *)
(***************************************************************************)
\* the 60 of `end[1]/60`: amounts and hours are counted in sixtieths
Scale == 60

\* the number a text starts with, for the texts of the model that start with
\* one ("50.00" is how the driver returns a DECIMAL(10,2))
LeadingNumber ==
    [t \in {"0", "1", "2", "3", "10", "20", "25", "50", "50.00", "10x"} |->
        CASE t = "0" -> 0
          [] t = "1" -> 1
          [] t = "2" -> 2
          [] t = "3" -> 3
          [] t \in {"10", "10x"} -> 10
          [] t = "20" -> 20
          [] t = "25" -> 25
          [] OTHER -> 50]

\* parseFloat(v): the argument is converted to a string and the longest
\* numeric prefix is parsed; NaN when there is none (null, undefined, "",
\* "abc")
parseFloat(v) ==
    IF v[1] = "number" THEN v
    ELSE IF v[1] = "string" /\ v[2] \in DOMAIN LeadingNumber
    THEN Num(LeadingNumber[v[2]])
    ELSE NaN

\* parseInt(v) on the values of the model (no text of the model has a
\* fraction other than .00)
parseInt(v) == parseFloat(v)

\* time.split(':').map(Number) for the clock texts of the model; a TIME
\* column is returned as HH:MM:SS
ClockTexts ==
    {"00:00", "02:00", "09:00", "09:30", "17:00", "22:00", "23:59", "09:00:00"}
SplitClock(t) ==
    CASE t = "00:00" -> <<0, 0>>
      [] t = "02:00" -> <<2, 0>>
      [] t = "09:00" -> <<9, 0>>
      [] t = "09:30" -> <<9, 30>>
      [] t = "17:00" -> <<17, 0>>
      [] t = "22:00" -> <<22, 0>>
      [] t = "23:59" -> <<23, 59>>
      [] t = "09:00:00" -> <<9, 0, 0>>

\* a faulty variant of calculateCrewCost: no `if (hours < 0) hours += 24`
calculateCrewCostNoOvernight(assignment) ==
    LET rate == OrElse(parseFloat(Get(assignment, "rate")), Num(0))
        call_time == Get(assignment, "call_time")
        end_time == Get(assignment, "end_time")
        start == SplitClock(call_time[2])
        end == SplitClock(end_time[2])
        hours == IF ~Falsy(call_time) /\ ~Falsy(end_time)
                 THEN (end[1] * Scale + end[2]) - (start[1] * Scale + start[2])
                 ELSE 8 * Scale
    IN  rate[2] * hours

\* calculateCrewCost: rate * hours, in 1/Scale
calculateCrewCost(assignment) ==
    LET rate == OrElse(parseFloat(Get(assignment, "rate")), Num(0))
        call_time == Get(assignment, "call_time")
        end_time == Get(assignment, "end_time")
        start == SplitClock(call_time[2])
        end == SplitClock(end_time[2])
        diff == (end[1] * Scale + end[2]) - (start[1] * Scale + start[2])
        hours == IF ~Falsy(call_time) /\ ~Falsy(end_time)
                 THEN IF diff < 0 THEN diff + 24 * Scale ELSE diff
                 ELSE 8 * Scale
    IN  rate[2] * hours

\* a faulty variant of calculateEquipmentCost: a quantity that does not parse
\* counts as 0
calculateEquipmentCostZeroDefault(assignment) ==
    LET rate == OrElse(parseFloat(Get(assignment, "rate")), Num(0))
        quantity == OrElse(parseInt(Get(assignment, "quantity")), Num(0))
    IN  rate[2] * quantity[2] * Scale

\* calculateEquipmentCost: rate * quantity, in 1/Scale
calculateEquipmentCost(assignment) ==
    LET rate == OrElse(parseFloat(Get(assignment, "rate")), Num(0))
        quantity == OrElse(parseInt(Get(assignment, "quantity")), Num(1))
    IN  rate[2] * quantity[2] * Scale

\* the assignments the calculator is applied to: rows as the queries return
\* them, and rows with a member missing or not a number
RateValues ==
    {NULL, Str(""), Str("abc"), Str("10x"), Num(0), Num(25), Num(50),
     Str("50.00")}
ClockValues == {NULL, Str("")} \cup {Str(t) : t \in ClockTexts}
QuantityValues == {NULL, Str("abc"), Num(0), Num(1), Num(3), Str("3")}

CalculatorRequests ==
    { [op |-> "calculateCrewCost", assignment |-> a] :
        a \in Bodies([rate |-> RateValues, call_time |-> ClockValues,
                      end_time |-> ClockValues]) }
    \cup
    { [op |-> "calculateEquipmentCost", assignment |-> a] :
        a \in Bodies([rate |-> RateValues, quantity |-> QuantityValues]) }

InitCalculator ==
    /\ events = EventIds
    /\ crew_members = [c \in CrewIds |-> c = "c1"]
    /\ equipment = [q \in EquipmentIds |-> q = "q1"]
    /\ crew_assignments = {}
    /\ equipment_assignments = {}
    /\ seq = 0
    /\ resp = [op |-> "none"]
    /\ request \in CalculatorRequests
    /\ catalog = Catalog0
    /\ Idle

CrewCost ==
    /\ resp.op = "none"
    /\ request.op = "calculateCrewCost"
    /\ resp' = [op |-> request.op, cost |-> calculateCrewCost(request.assignment)]
    /\ UNCHANGED <<events, crew_members, equipment, crew_assignments,
                   equipment_assignments, seq, request, catalog,
                   users, now, inflight>>

EquipmentCost ==
    /\ resp.op = "none"
    /\ request.op = "calculateEquipmentCost"
    /\ resp' = [op |-> request.op,
                cost |-> calculateEquipmentCost(request.assignment)]
    /\ UNCHANGED <<events, crew_members, equipment, crew_assignments,
                   equipment_assignments, seq, request, catalog,
                   users, now, inflight>>

NextCalculator == CrewCost \/ EquipmentCost

SpecCalculator == InitCalculator /\ [][NextCalculator]_vars

\* texts and numbers that denote a number, and the number
IsNumeric(v) ==
    v[1] = "number" \/ (v[1] = "string" /\ v[2] \in DOMAIN LeadingNumber \ {"10x"})
NumericValue(v) == IF v[1] = "number" THEN v[2] ELSE LeadingNumber[v[2]]
\* values with nothing of a number in them
NonNumeric(v) == v \in {Undefined, NULL, Str(""), Str("abc")}
\* minutes since midnight of a clock text
MinuteOfDay(t) == SplitClock(t)[1] * 60 + SplitClock(t)[2]

\* C11: crewCost is rate x hours.  With both times present hours is end minus
\* call, plus 24 when negative, and lies in [0, 24); with a time absent hours
\* is exactly 8.  A missing or non-numeric rate gives 0.  Rate 50 from 22:00
\* to 02:00 gives 200 and rate 50 without times gives 400.
C11_CrewCost ==
    (resp.op = "calculateCrewCost") =>
        LET a == request.assignment
            rate == Get(a, "rate")
            call == Get(a, "call_time")
            end == Get(a, "end_time")
            timed == call \notin {Undefined, NULL, Str("")}
                     /\ end \notin {Undefined, NULL, Str("")}
            minutes == IF timed
                       THEN (MinuteOfDay(end[2]) - MinuteOfDay(call[2])) % (24 * 60)
                       ELSE 8 * 60
        IN  /\ minutes >= 0 /\ minutes < 24 * 60
            /\ IsNumeric(rate) => resp.cost * 60 = NumericValue(rate) * minutes * Scale
            /\ NonNumeric(rate) => resp.cost = 0
            /\ (rate = Num(50) /\ call = Str("22:00") /\ end = Str("02:00"))
                  => resp.cost = 200 * Scale
            /\ (rate = Num(50) /\ ~timed) => resp.cost = 400 * Scale

\* the cost of a shift over midnight was computed
C11_Witness ==
    /\ resp.op = "calculateCrewCost"
    /\ request.assignment
         = [rate |-> Num(50), call_time |-> Str("22:00"), end_time |-> Str("02:00")]
    /\ resp.cost = 200 * Scale

\* C12: equipmentCost is rate x quantity for a quantity of at least 1, the
\* quantity counting as 1 when it is missing or non-numeric and the rate as 0
\* when it is missing or non-numeric; a cost is returned for every such input.
\* Rate 25 with quantity 3 gives 75, rate 25 without quantity gives 25.
C12_EquipmentCost ==
    (resp.op = "calculateEquipmentCost") =>
        LET a == request.assignment
            rate == Get(a, "rate")
            quantity == Get(a, "quantity")
            r == IF IsNumeric(rate) THEN NumericValue(rate) ELSE 0
            n == IF IsNumeric(quantity) THEN NumericValue(quantity) ELSE 1
        IN  /\ resp.cost \in Int
            /\ ( /\ IsNumeric(rate) \/ NonNumeric(rate)
                 /\ (IsNumeric(quantity) /\ n >= 1) \/ NonNumeric(quantity) )
               => resp.cost = r * n * Scale
            /\ (rate = Num(25) /\ quantity = Num(3)) => resp.cost = 75 * Scale
            /\ (rate = Num(25) /\ quantity \in {Undefined, NULL})
                  => resp.cost = 25 * Scale

\* the cost of an assignment whose quantity is no number was computed
C12_Witness ==
    /\ resp.op = "calculateEquipmentCost"
    /\ request.assignment = [rate |-> Str("50.00"), quantity |-> Str("abc")]
    /\ resp.cost = 50 * Scale

(***************************************************************************)
(* Cost aggregator: GET /event/:id and GET /costs.  K is the catalog.  A    *)
(* DECIMAL the driver returns as text ("20.00") is kept as the number it    *)
(* denotes; every amount of a response is in 1/Scale.                       *)
(***************************************************************************)
\* sum of the values of a function (Array.prototype.reduce with +, SQL SUM)
RECURSIVE Sum(_)
Sum(f) ==
    IF DOMAIN f = {} THEN 0
    ELSE LET x == CHOOSE y \in DOMAIN f : TRUE
         IN  f[x] + Sum([y \in DOMAIN f \ {x} |-> f[y]])

\* SQL COALESCE(a, b, 0)
COALESCE(a, b) == IF a # NULL THEN a ELSE IF b # NULL THEN b ELSE Num(0)

\* COALESCE(ca.rate_override, cm.hourly_rate, 0) as rate
CrewRate(K, a) == COALESCE(a.rate_override, K.hourly_rate[a.crew_member_id])

\* COALESCE(ea.rate_override, eq.daily_rate, 0) as rate
EquipmentRate(K, a) == COALESCE(a.rate_override, K.daily_rate[a.equipment_id])

\* the rows added to a response: status, text and the members of the body
EventReport(status, text, crew, equip, totals) ==
    [op |-> "GET /event/:id", status |-> status, text |-> text,
     crewAssignments |-> crew, equipmentAssignments |-> equip,
     totals |-> totals]

NoTotals == [crew |-> 0, equipment |-> 0, total |-> 0]

\* a faulty variant of EventCrewRows: the query has no WHERE ca.event_id = $1
EventCrewRowsAllEvents(S, K, id) ==
    { [row |-> a, rate |-> CrewRate(K, a),
       cost |-> calculateCrewCost([rate |-> CrewRate(K, a),
                                   call_time |-> a.call_time,
                                   end_time |-> a.end_time])] :
        a \in S.crew_assignments }

\* crewResult.rows with the cost member added; the rows have distinct ids,
\* their display order (p.sort_order, cm.name) is left out
EventCrewRows(S, K, id) ==
    { [row |-> a, rate |-> CrewRate(K, a),
       cost |-> calculateCrewCost([rate |-> CrewRate(K, a),
                                   call_time |-> a.call_time,
                                   end_time |-> a.end_time])] :
        a \in {b \in S.crew_assignments : b.event_id = id} }

\* equipmentResult.rows with the cost member added
EventEquipmentRows(S, K, id) ==
    { [row |-> a, rate |-> EquipmentRate(K, a),
       cost |-> calculateEquipmentCost([rate |-> EquipmentRate(K, a),
                                        quantity |-> a.quantity])] :
        a \in {b \in S.equipment_assignments : b.event_id = id} }

GetEventHandler(S, K, id) ==
    LET crew == EventCrewRows(S, K, id)
        equip == EventEquipmentRows(S, K, id)
        crewTotal == Sum([r \in crew |-> r.cost])
        equipmentTotal == Sum([r \in equip |-> r.cost])
    IN  IF id \notin S.events
        THEN EventReport(404, "Event not found", {}, {}, NoTotals)
        ELSE EventReport(200, "", crew, equip,
                         [crew |-> crewTotal, equipment |-> equipmentTotal,
                          total |-> crewTotal + equipmentTotal])

\* GET /event/:id: authenticate, then the handler; the store is only read
GetEventOutcome(S, K, actor, id) ==
    LET gate == Gate(actor, 0, FALSE)
    IN  IF gate # 0
        THEN EventReport(gate, GateText(gate), {}, {}, NoTotals)
        ELSE GetEventHandler(S, K, id)

(***************************************************************************)
(* GET /costs                                                              *)
(***************************************************************************)
\* a DATE value of a query string
Date(d) == <<"date", d>>

\* the WHERE clause built from req.query
CostsFilter(K, query, e) ==
    /\ Falsy(Get(query, "start_date"))
          \/ K.event_date[e] >= Get(query, "start_date")[2]
    /\ Falsy(Get(query, "end_date"))
          \/ K.event_date[e] <= Get(query, "end_date")[2]
    /\ Falsy(Get(query, "cost_center"))
          \/ K.cost_center[e] = Get(query, "cost_center")

\* the rows of one event in
\*   events e LEFT JOIN crew_assignments ca LEFT JOIN crew_members cm
\*            LEFT JOIN equipment_assignments ea LEFT JOIN equipment eq:
\* every crew assignment of the event paired with every equipment assignment
\* of the event; NoRow stands for the all-NULL side of a LEFT JOIN without
\* a match
JoinedRows(S, e) ==
    LET ca == {a \in S.crew_assignments : a.event_id = e}
        ea == {a \in S.equipment_assignments : a.event_id = e}
    IN  (IF ca = {} THEN {NoRow} ELSE ca) \X (IF ea = {} THEN {NoRow} ELSE ea)

\* COALESCE(SUM(COALESCE(ca.rate_override, cm.hourly_rate, 0) * 8), 0)
SumCrewCost(S, K, e) ==
    Sum([j \in JoinedRows(S, e) |->
            IF j[1] = NoRow THEN 0 ELSE CrewRate(K, j[1])[2] * 8 * Scale])

\* COALESCE(SUM(COALESCE(ea.rate_override, eq.daily_rate, 0) * ea.quantity), 0):
\* a row without equipment assignment has a NULL product, which SUM skips
SumEquipmentCost(S, K, e) ==
    Sum([j \in JoinedRows(S, e) |->
            IF j[2] = NoRow \/ j[2].quantity = NULL THEN 0
            ELSE EquipmentRate(K, j[2])[2] * j[2].quantity[2] * Scale])

\* result.rows: one row per matching event
CostsRows(S, K, query) ==
    { [id |-> e, name |-> K.event_name[e], event_date |-> K.event_date[e],
       cost_center |-> K.cost_center[e],
       crew_cost |-> Num(SumCrewCost(S, K, e)),
       equipment_cost |-> Num(SumEquipmentCost(S, K, e))] :
        e \in {x \in S.events : CostsFilter(K, query, x)} }

\* property names every object literal inherits: byCostCenter[cc] is truthy
\* for them before any bucket is stored
ObjectPrototypeKeys == {"constructor", "__proto__"}

\* the key of an event's bucket: event.cost_center || 'Unassigned'
BucketKey(event) == OrElse(event.cost_center, Str("Unassigned"))[2]

\* a faulty variant of CostsStep: the grand total is not accumulated
CostsStepNoGrandTotal(acc, event) ==
    LET cc == BucketKey(event)
        crewCost == OrElse(parseFloat(event.crew_cost), Num(0))[2]
        equipmentCost == OrElse(parseFloat(event.equipment_cost), Num(0))[2]
        total == crewCost + equipmentCost
        entry == [id |-> event.id, name |-> event.name,
                  event_date |-> event.event_date,
                  cost_center |-> event.cost_center,
                  crew_cost |-> crewCost, equipment_cost |-> equipmentCost,
                  total |-> total]
        old == IF cc \in DOMAIN acc.byCostCenter THEN acc.byCostCenter[cc]
               ELSE [events |-> {}, totals |-> NoTotals]
        new == [events |-> old.events \cup {entry},
                totals |-> [crew |-> old.totals.crew + crewCost,
                            equipment |-> old.totals.equipment + equipmentCost,
                            total |-> old.totals.total + total]]
    IN  [acc EXCEPT
           !.byCostCenter = [k \in DOMAIN acc.byCostCenter \cup {cc} |->
                                IF k = cc THEN new ELSE acc.byCostCenter[k]]]

\* one turn of result.rows.forEach: the event is pushed to its bucket and
\* added to the bucket's totals and to the grand total
CostsStep(acc, event) ==
    LET cc == BucketKey(event)
        crewCost == OrElse(parseFloat(event.crew_cost), Num(0))[2]
        equipmentCost == OrElse(parseFloat(event.equipment_cost), Num(0))[2]
        total == crewCost + equipmentCost
        entry == [id |-> event.id, name |-> event.name,
                  event_date |-> event.event_date,
                  cost_center |-> event.cost_center,
                  crew_cost |-> crewCost, equipment_cost |-> equipmentCost,
                  total |-> total]
        old == IF cc \in DOMAIN acc.byCostCenter THEN acc.byCostCenter[cc]
               ELSE [events |-> {}, totals |-> NoTotals]
        new == [events |-> old.events \cup {entry},
                totals |-> [crew |-> old.totals.crew + crewCost,
                            equipment |-> old.totals.equipment + equipmentCost,
                            total |-> old.totals.total + total]]
    IN  [byCostCenter |-> [k \in DOMAIN acc.byCostCenter \cup {cc} |->
                              IF k = cc THEN new ELSE acc.byCostCenter[k]],
         grandTotal |-> [crew |-> acc.grandTotal.crew + crewCost,
                         equipment |-> acc.grandTotal.equipment + equipmentCost,
                         total |-> acc.grandTotal.total + total]]

\* result.rows.forEach(...); the order of the rows (ORDER BY e.event_date)
\* decides only the order of the entries of a bucket, which is left out
RECURSIVE CostsLoop(_, _)
CostsLoop(acc, rows) ==
    IF rows = {} THEN acc
    ELSE LET event == CHOOSE r \in rows : TRUE
         IN  CostsLoop(CostsStep(acc, event), rows \ {event})

CostsReport(status, text, grouped, n) ==
    [op |-> "GET /costs", status |-> status, text |-> text,
     byCostCenter |-> grouped.byCostCenter, grandTotal |-> grouped.grandTotal,
     eventCount |-> n]

NoGroups == [byCostCenter |-> <<>>, grandTotal |-> NoTotals]

GetCostsHandler(S, K, query) ==
    LET rows == CostsRows(S, K, query)
    IN  IF \E r \in rows : BucketKey(r) \in ObjectPrototypeKeys
        \* byCostCenter[cc].events is undefined: push throws a TypeError
        THEN CostsReport(500, "Internal server error", NoGroups, 0)
        ELSE CostsReport(200, "", CostsLoop(NoGroups, rows), Cardinality(rows))

\* GET /costs: authenticate, isScheduler, then the handler
GetCostsOutcome(S, K, actor, query) ==
    LET gate == Gate(actor, isScheduler(actor), FALSE)
    IN  IF gate # 0
        THEN CostsReport(gate, GateText(gate), NoGroups, 0)
        ELSE GetCostsHandler(S, K, query)

(***************************************************************************)
(* Assignments are created and the costs are read: event e1 starts with a   *)
(* crew and an equipment assignment, event e2 with none; every resource is  *)
(* active; at most MaxRows assignments are added.                          *)
(***************************************************************************)
CostsStore ==
    [LoadedStore EXCEPT
        !.crew_members = [c \in CrewIds |-> TRUE],
        !.equipment = [q \in EquipmentIds |-> TRUE],
        !.crew_assignments = {a \in @ : a.event_id = "e1"},
        !.equipment_assignments = {a \in @ : a.event_id = "e1"}]

\* the default rates of the resources that get assigned: absent or set
CostsCatalogs ==
    { [Catalog0 EXCEPT !.hourly_rate["c2"] = h, !.daily_rate["q2"] = d] :
        h \in {NULL, Num(20)}, d \in {NULL, Num(25)} }

\* POST /crew bodies for crew member c2: no override, the number 0, the text
\* "0", the number 10, the text "10"; without times or from 17:00 to 09:00
CostsCrewBodies ==
    { [event_id |-> Str(e), crew_member_id |-> Str("c2")] @@ r @@ t :
        e \in EventIds,
        r \in {Empty} \cup { [rate_override |-> v] :
                               v \in {Num(0), Str("0"), Num(10), Str("10")} },
        t \in {Empty, [call_time |-> Str("17:00"), end_time |-> Str("09:00")]} }

CostsEquipmentBodies ==
    { [event_id |-> Str(e), equipment_id |-> Str("q2")] @@ r @@ n :
        e \in EventIds,
        r \in {Empty} \cup { [rate_override |-> v] : v \in {Num(0), Num(10)} },
        n \in {Empty, [quantity |-> Num(2)]} }

\* the caller of the cost requests
Admin == [token |-> TRUE, is_active |-> TRUE, role |-> "admin"]

InitCosts ==
    /\ events = CostsStore.events
    /\ crew_members = CostsStore.crew_members
    /\ equipment = CostsStore.equipment
    /\ crew_assignments = CostsStore.crew_assignments
    /\ equipment_assignments = CostsStore.equipment_assignments
    /\ seq = CostsStore.seq
    /\ resp = Response("none", 0, "")
    /\ request = NoRequest
    /\ catalog \in CostsCatalogs
    /\ Idle

\* a request that writes is served and remembered
ServeWrite(req, out) ==
    /\ out.store.seq <= CostsStore.seq + MaxRows
    /\ events' = out.store.events
    /\ crew_members' = out.store.crew_members
    /\ equipment' = out.store.equipment
    /\ crew_assignments' = out.store.crew_assignments
    /\ equipment_assignments' = out.store.equipment_assignments
    /\ seq' = out.store.seq
    /\ resp' = out.resp
    /\ request' = req
    /\ UNCHANGED <<catalog, users, now, inflight>>

\* a request that reads is served and remembered
ServeRead(req, response) ==
    /\ resp' = response
    /\ request' = req
    /\ UNCHANGED <<events, crew_members, equipment, crew_assignments,
                   equipment_assignments, seq, catalog,
                   users, now, inflight>>

CostsPostCrew(body) ==
    ServeWrite([op |-> "POST /crew", body |-> body],
               PostCrewOutcome(Store, Admin, body))

CostsPostEquipment(body) ==
    ServeWrite([op |-> "POST /equipment", body |-> body],
               PostEquipmentOutcome(Store, Admin, body))

CostsGetEvent(id) ==
    ServeRead([op |-> "GET /event/:id", id |-> id],
              GetEventOutcome(Store, catalog, Admin, id))

CostsGetCosts ==
    ServeRead([op |-> "GET /costs", query |-> Empty],
              GetCostsOutcome(Store, catalog, Admin, Empty))

NextCosts ==
    \/ \E body \in CostsCrewBodies : CostsPostCrew(body)
    \/ \E body \in CostsEquipmentBodies : CostsPostEquipment(body)
    \/ \E id \in EventIds \cup {NoEvent} : CostsGetEvent(id)
    \/ CostsGetCosts

SpecCosts == InitCosts /\ [][NextCosts]_vars

\* the rate the data model gives an assignment: the override if present,
\* else the resource's default, else 0
EffectiveRate(override, default) ==
    IF override # NULL THEN override[2]
    ELSE IF default # NULL THEN default[2]
    ELSE 0

\* hours x 60 of a crew assignment with these times
ShiftMinutes(call, end) ==
    IF call # NULL /\ end # NULL
    THEN (MinuteOfDay(end[2]) - MinuteOfDay(call[2])) % (24 * 60)
    ELSE 8 * 60

\* the events of the cost report that a response lists, by id
ReportedEvents(report) ==
    UNION {report.byCostCenter[k].events : k \in DOMAIN report.byCostCenter}

\* C13: an assignment created with a rate override r >= 0 is costed with r in
\* the event cost summary and in the cost report, one created without an
\* override with the resource's default rate, or 0 when there is none.  (The
\* cost report is read for events with a single assignment of the other
\* kind at most.)
C13_OverrideRateUsed ==
    [][ /\ (request'.op = "POST /crew" /\ resp'.status = 201) =>
            LET body == request'.body
                a == resp'.assignment
                r == IF "rate_override" \in DOMAIN body
                     THEN NumericValue(body["rate_override"])
                     ELSE EffectiveRate(NULL, catalog.hourly_rate[a.crew_member_id])
                summary == GetEventOutcome(Store', catalog, Admin, a.event_id)
                before == GetCostsOutcome(Store, catalog, Admin, Empty)
                after == GetCostsOutcome(Store', catalog, Admin, Empty)
                Cost(report) ==
                    (CHOOSE x \in ReportedEvents(report) : x.id = a.event_id).crew_cost
            IN  /\ \E row \in summary.crewAssignments :
                      /\ row.row = a
                      /\ row.rate = Num(r)
                      /\ row.cost * 60 = r * ShiftMinutes(a.call_time, a.end_time) * Scale
                /\ Cardinality({x \in equipment_assignments :
                                   x.event_id = a.event_id}) <= 1
                      => Cost(after) = Cost(before) + r * 8 * Scale
        /\ (request'.op = "POST /equipment" /\ resp'.status = 201) =>
            LET body == request'.body
                a == resp'.assignment
                r == IF "rate_override" \in DOMAIN body
                     THEN NumericValue(body["rate_override"])
                     ELSE EffectiveRate(NULL, catalog.daily_rate[a.equipment_id])
                summary == GetEventOutcome(Store', catalog, Admin, a.event_id)
                before == GetCostsOutcome(Store, catalog, Admin, Empty)
                after == GetCostsOutcome(Store', catalog, Admin, Empty)
                Cost(report) ==
                    (CHOOSE x \in ReportedEvents(report) : x.id = a.event_id).equipment_cost
            IN  /\ \E row \in summary.equipmentAssignments :
                      /\ row.row = a
                      /\ row.rate = Num(r)
                      /\ row.cost = r * a.quantity[2] * Scale
                /\ Cardinality({x \in crew_assignments :
                                   x.event_id = a.event_id}) <= 1
                      => Cost(after) = Cost(before) + r * a.quantity[2] * Scale
      ]_vars

\* C14: the event cost summary of an existing event answers 200 and lists
\* exactly the event's crew and equipment assignments; its crew subtotal is
\* the sum of crewCost over the event's crew assignments, its equipment
\* subtotal the sum of equipmentCost over the event's equipment assignments,
\* each at its effective rate, and the total is their sum; an event without
\* assignments gets 0, 0, 0.
C14_EventCostSummary ==
    (resp.op = "GET /event/:id" /\ request.id \in events) =>
        LET ca == {a \in crew_assignments : a.event_id = request.id}
            ea == {a \in equipment_assignments : a.event_id = request.id}
            crewCost60 == [a \in ca |->
                EffectiveRate(a.rate_override, catalog.hourly_rate[a.crew_member_id])
                    * ShiftMinutes(a.call_time, a.end_time) * Scale]
            equipmentCost == [a \in ea |->
                EffectiveRate(a.rate_override, catalog.daily_rate[a.equipment_id])
                    * a.quantity[2] * Scale]
        IN  /\ resp.status = 200
            /\ {r.row : r \in resp.crewAssignments} = ca
            /\ {r.row : r \in resp.equipmentAssignments} = ea
            /\ resp.totals.crew * 60 = Sum(crewCost60)
            /\ resp.totals.equipment = Sum(equipmentCost)
            /\ resp.totals.total = resp.totals.crew + resp.totals.equipment
            /\ (ca = {} /\ ea = {}) => resp.totals = NoTotals

\* the summary of an event with two crew and one equipment assignment was
\* read while the other event has an assignment too
C14_Witness ==
    /\ resp.op = "GET /event/:id"
    /\ resp.status = 200
    /\ request.id = "e1"
    /\ Cardinality(resp.crewAssignments) = 2
    /\ Cardinality(resp.equipmentAssignments) = 1
    /\ resp.totals.total > 0
    /\ \E a \in equipment_assignments : a.event_id = "e2"

(***************************************************************************)
(* One GET /costs request against a database: the database and the request *)
(* are drawn in the initial state, the action serves the request.          *)
(***************************************************************************)
ReportEvents == EventIds \cup {"e3"}

\* crew assignments a database may hold: two of e1, one of e2, one of e3
CrewPool ==
    { CrewRow(1, "e1", "c1", NULL, Str("09:00"), Str("17:00"), Num(10), NULL),
      CrewRow(2, "e1", "c2", NULL, NULL, NULL, NULL, NULL),
      CrewRow(3, "e2", "c1", NULL, NULL, NULL, NULL, NULL),
      CrewRow(4, "e3", "c2", NULL, Str("17:00"), Str("09:00"), Num(2), NULL) }

\* equipment assignments a database may hold: two of e1, two of e2
EquipmentPool ==
    { EquipmentRow(5, "e1", "q1", Num(2), Num(10), NULL),
      EquipmentRow(6, "e1", "q2", Num(1), NULL, NULL),
      EquipmentRow(7, "e2", "q1", Num(1), NULL, NULL),
      EquipmentRow(8, "e2", "q2", Num(2), Num(1), NULL) }

ReportStore(ca, ea) ==
    [events |-> ReportEvents,
     crew_members |-> [c \in CrewIds |-> c = "c1"],
     equipment |-> [q \in EquipmentIds |-> q = "q1"],
     crew_assignments |-> ca,
     equipment_assignments |-> ea,
     seq |-> 8]

\* event dates: ascending, all equal, out of id order
EventDates ==
    { [e \in ReportEvents |-> CASE e = "e1" -> 1 [] e = "e2" -> 2 [] OTHER -> 3],
      [e \in ReportEvents |-> 2],
      [e \in ReportEvents |-> CASE e = "e1" -> 3 [] e = "e2" -> 1 [] OTHER -> 2] }

\* cost center labels: none, empty, two labels, the label of the synthetic
\* bucket, and a label that is a property of every object
CostCenters ==
    {NULL, Str(""), Str("A"), Str("B"), Str("Unassigned"), Str("constructor")}

ReportCatalog(dates, centers) ==
    [event_date  |-> dates,
     event_name  |-> [e \in ReportEvents |-> e],
     cost_center |-> centers,
     crew_name   |-> Catalog0.crew_name,
     hourly_rate |-> Catalog0.hourly_rate,
     daily_rate  |-> Catalog0.daily_rate]

CostsQueries ==
    Bodies([start_date |-> {Date(2)}, end_date |-> {Date(2)},
            cost_center |-> {Str("A")}])

\* every content of the two tables under one catalog, and every catalog over
\* four contents
CostReportDatabases ==
    { [store |-> ReportStore(ca, ea),
       catalog |-> ReportCatalog(CHOOSE d \in EventDates : d["e1"] = 1,
                                 [e \in ReportEvents |->
                                     IF e = "e3" THEN NULL ELSE Str("A")])] :
        ca \in SUBSET CrewPool, ea \in SUBSET EquipmentPool }
    \cup
    { [store |-> ReportStore(ca, ea), catalog |-> ReportCatalog(d, c)] :
        ca \in {{}, CrewPool}, ea \in {{}, EquipmentPool},
        d \in EventDates, c \in [ReportEvents -> CostCenters] }

InitCostReport ==
    \E db \in CostReportDatabases :
        /\ events = db.store.events
        /\ crew_members = db.store.crew_members
        /\ equipment = db.store.equipment
        /\ crew_assignments = db.store.crew_assignments
        /\ equipment_assignments = db.store.equipment_assignments
        /\ seq = db.store.seq
        /\ catalog = db.catalog
        /\ Idle
        /\ resp = Response("none", 0, "")
        /\ request \in { [op |-> "GET /costs", query |-> q] : q \in CostsQueries }

GetCosts ==
    /\ resp.op = "none"
    /\ resp' = GetCostsOutcome(Store, catalog, Admin, request.query)
    /\ UNCHANGED <<events, crew_members, equipment, crew_assignments,
                   equipment_assignments, seq, request, catalog,
                   users, now, inflight>>

NextCostReport == GetCosts

SpecCostReport == InitCostReport /\ [][NextCostReport]_vars

\* C15: in the cost report every listed event's crew cost is the sum over the
\* event's crew assignments of effective rate x 8 and its equipment cost the
\* sum over the event's equipment assignments of effective rate x quantity,
\* each assignment counted once.
C15_ReportCountsEachAssignmentOnce ==
    (resp.op = "GET /costs" /\ resp.status = 200) =>
        \A x \in ReportedEvents(resp) :
            LET ca == {a \in crew_assignments : a.event_id = x.id}
                ea == {a \in equipment_assignments : a.event_id = x.id}
            IN  /\ x.crew_cost = Sum([a \in ca |->
                      EffectiveRate(a.rate_override,
                                    catalog.hourly_rate[a.crew_member_id])
                          * 8 * Scale])
                /\ x.equipment_cost = Sum([a \in ea |->
                      EffectiveRate(a.rate_override,
                                    catalog.daily_rate[a.equipment_id])
                          * a.quantity[2] * Scale])

\* C16: in every cost report the grand total equals the sum of the buckets'
\* totals, component by component; each bucket's totals are the sums over the
\* events listed in the bucket; eventCount is the number of events listed in
\* all buckets.
C16_ReportTotalsAddUp ==
    (resp.op = "GET /costs" /\ resp.status = 200) =>
        LET buckets == resp.byCostCenter
            keys == DOMAIN buckets
        IN  /\ resp.grandTotal.crew = Sum([k \in keys |-> buckets[k].totals.crew])
            /\ resp.grandTotal.equipment
                  = Sum([k \in keys |-> buckets[k].totals.equipment])
            /\ resp.grandTotal.total = Sum([k \in keys |-> buckets[k].totals.total])
            /\ \A k \in keys :
                  /\ buckets[k].totals.crew
                        = Sum([x \in buckets[k].events |-> x.crew_cost])
                  /\ buckets[k].totals.equipment
                        = Sum([x \in buckets[k].events |-> x.equipment_cost])
                  /\ buckets[k].totals.total
                        = Sum([x \in buckets[k].events |-> x.total])
            /\ resp.eventCount
                  = Sum([k \in keys |-> Cardinality({x.id : x \in buckets[k].events})])

\* a report with two buckets was computed, the synthetic one holding two
\* events, with costs in it
C16_Witness ==
    /\ resp.op = "GET /costs"
    /\ resp.status = 200
    /\ DOMAIN resp.byCostCenter = {"A", "Unassigned"}
    /\ Cardinality(resp.byCostCenter["Unassigned"].events) = 2
    /\ resp.byCostCenter["Unassigned"].totals.total > 0
    /\ resp.grandTotal.total > resp.byCostCenter["Unassigned"].totals.total

\* C17: the cost report lists every event that matches the date range and
\* cost center filters in exactly one bucket, the one keyed by the event's
\* cost center label, or "Unassigned" for an event without cost center;
\* an event outside the filters is in no bucket.
C17_EveryMatchingEventInItsBucket ==
    (resp.op = "GET /costs") =>
        LET q == request.query
            Matches(e) ==
                /\ "start_date" \in DOMAIN q => catalog.event_date[e] >= q["start_date"][2]
                /\ "end_date" \in DOMAIN q => catalog.event_date[e] <= q["end_date"][2]
                /\ "cost_center" \in DOMAIN q => catalog.cost_center[e] = q["cost_center"]
            Label(e) == IF catalog.cost_center[e] \in {NULL, Str("")}
                        THEN "Unassigned" ELSE catalog.cost_center[e][2]
            Holds(e) == {k \in DOMAIN resp.byCostCenter :
                            \E x \in resp.byCostCenter[k].events : x.id = e}
        IN  /\ resp.status = 200
            /\ \A e \in events :
                  IF Matches(e) THEN Holds(e) = {Label(e)} ELSE Holds(e) = {}

(***************************************************************************)
(* GET /availability/crew and GET /crew-schedule.  Rows that ORDER BY       *)
(* leaves tied come in an order the store chooses: rank is that order, a    *)
(* numbering of the events.                                                *)
(***************************************************************************)
\* the position of a crew member's name in the collation
Collate(name) == IF name = "Ann" THEN 1 ELSE 2

\* lexicographic order of two keys of equal length
RECURSIVE KeyLess(_, _)
KeyLess(a, b) ==
    /\ a # <<>>
    /\ \/ Head(a) < Head(b)
       \/ Head(a) = Head(b) /\ KeyLess(Tail(a), Tail(b))

\* the rows of DOMAIN key as a sequence in ascending order of their keys
\* (the keys are distinct)
RECURSIVE OrderBy(_)
OrderBy(key) ==
    IF DOMAIN key = {} THEN <<>>
    ELSE LET first == CHOOSE r \in DOMAIN key :
                          \A o \in DOMAIN key \ {r} : KeyLess(key[r], key[o])
         IN  <<first>> \o OrderBy([r \in DOMAIN key \ {first} |-> key[r]])

\* the orders the store may choose among tied rows
Ranks ==
    {f \in [ReportEvents -> 1..Cardinality(ReportEvents)] :
        \A x, y \in ReportEvents : f[x] = f[y] => x = y}

\* a faulty variant of Between: the bounds are excluded
BetweenExclusive(d, query) ==
    /\ d > Get(query, "start_date")[2]
    /\ d < Get(query, "end_date")[2]

\* e.event_date BETWEEN $1 AND $2
Between(d, query) ==
    /\ d >= Get(query, "start_date")[2]
    /\ d <= Get(query, "end_date")[2]

\* a faulty variant of AvailabilityRows: the date range is a WHERE condition,
\* not part of the LEFT JOIN
AvailabilityRowsWhere(S, K, query) ==
    { [id |-> a.crew_member_id, name |-> K.crew_name[a.crew_member_id],
       event_id |-> a.event_id,
       event_date |-> Date(K.event_date[a.event_id]),
       event_name |-> K.event_name[a.event_id]] :
        a \in {x \in S.crew_assignments :
                  /\ S.crew_members[x.crew_member_id]
                  /\ Between(K.event_date[x.event_id], query)} }

\* the rows of
\*   crew_members cm LEFT JOIN crew_assignments ca
\*                   LEFT JOIN events e ON ... AND e.event_date BETWEEN $1 AND $2
\*   WHERE cm.is_active = true:
\* one row per assignment of an active member, with the event's date and name
\* when the date is in the range and NULLs otherwise, and one all-NULL row
\* for an active member without assignment
AvailabilityRows(S, K, query) ==
    { [id |-> a.crew_member_id, name |-> K.crew_name[a.crew_member_id],
       event_id |-> a.event_id,
       event_date |-> IF Between(K.event_date[a.event_id], query)
                      THEN Date(K.event_date[a.event_id]) ELSE NULL,
       event_name |-> IF Between(K.event_date[a.event_id], query)
                      THEN K.event_name[a.event_id] ELSE "NULL"] :
        a \in {x \in S.crew_assignments : S.crew_members[x.crew_member_id]} }
    \cup
    { [id |-> c, name |-> K.crew_name[c], event_id |-> "NULL",
       event_date |-> NULL, event_name |-> "NULL"] :
        c \in {x \in DOMAIN S.crew_members :
                  /\ S.crew_members[x]
                  /\ \A a \in S.crew_assignments : a.crew_member_id # x} }

\* ORDER BY cm.name, e.event_date (NULLs last); ties as the store ranks them
AvailabilityOrder(rows, rank) ==
    OrderBy([r \in rows |->
        <<Collate(r.name),
          IF r.event_date = NULL THEN 1 ELSE 0,
          IF r.event_date = NULL THEN 0 ELSE r.event_date[2],
          IF r.event_id = "NULL" THEN 0 ELSE rank[r.event_id],
          IF r.id = "c1" THEN 1 ELSE 2>>])

\* one turn of result.rows.forEach: the member's entry is created, the event
\* is pushed when the row has one
AvailabilityStep(availability, row) ==
    LET old == IF row.id \in DOMAIN availability THEN availability[row.id]
               ELSE [id |-> row.id, name |-> row.name, assignments |-> <<>>]
        new == IF row.event_date # NULL
               THEN [old EXCEPT !.assignments =
                        Append(@, [date |-> row.event_date[2],
                                   event |-> row.event_name])]
               ELSE old
    IN  [c \in DOMAIN availability \cup {row.id} |->
            IF c = row.id THEN new ELSE availability[c]]

RECURSIVE AvailabilityLoop(_, _)
AvailabilityLoop(availability, rows) ==
    IF rows = <<>> THEN availability
    ELSE AvailabilityLoop(AvailabilityStep(availability, Head(rows)), Tail(rows))

\* availability: the entries by crew member id (Object.values lists them in
\* the order of their first row)
AvailabilityReport(status, text, availability) ==
    [op |-> "GET /availability/crew", status |-> status, text |-> text,
     availability |-> availability]

GetAvailabilityHandler(S, K, query, rank) ==
    IF Falsy(Get(query, "start_date")) \/ Falsy(Get(query, "end_date"))
    THEN AvailabilityReport(400, "start_date and end_date required", <<>>)
    ELSE AvailabilityReport(200, "",
            AvailabilityLoop(<<>>,
                AvailabilityOrder(AvailabilityRows(S, K, query), rank)))

\* GET /availability/crew: authenticate, then the handler
GetAvailabilityOutcome(S, K, actor, query, rank) ==
    LET gate == Gate(actor, 0, FALSE)
    IN  IF gate # 0
        THEN AvailabilityReport(gate, GateText(gate), <<>>)
        ELSE GetAvailabilityHandler(S, K, query, rank)

(***************************************************************************)
(* GET /crew-schedule.  today is CURRENT_DATE at the time of the query.     *)
(***************************************************************************)
\* the WHERE clause built from req.query
ScheduleFilter(K, query, today, a) ==
    /\ IF Falsy(Get(query, "start_date"))
       THEN K.event_date[a.event_id] >= today
       ELSE K.event_date[a.event_id] >= Get(query, "start_date")[2]
    /\ Falsy(Get(query, "end_date"))
          \/ K.event_date[a.event_id] <= Get(query, "end_date")[2]
    /\ Falsy(Get(query, "crew_member_id"))
          \/ Str(a.crew_member_id) = Get(query, "crew_member_id")

\* a faulty variant of ScheduleRows: a start date is added to the default
\* condition instead of replacing it
ScheduleRowsFromToday(S, K, query, today) ==
    { [crew_id |-> a.crew_member_id, crew_name |-> K.crew_name[a.crew_member_id],
       event_id |-> a.event_id, event_name |-> K.event_name[a.event_id],
       event_date |-> K.event_date[a.event_id],
       call_time |-> a.call_time, status |-> a.status] :
        a \in {x \in S.crew_assignments :
                  /\ ScheduleFilter(K, query, today, x)
                  /\ K.event_date[x.event_id] >= today} }

\* result.rows of crew_assignments ca JOIN crew_members cm JOIN events e
ScheduleRows(S, K, query, today) ==
    { [crew_id |-> a.crew_member_id, crew_name |-> K.crew_name[a.crew_member_id],
       event_id |-> a.event_id, event_name |-> K.event_name[a.event_id],
       event_date |-> K.event_date[a.event_id],
       call_time |-> a.call_time, status |-> a.status] :
        a \in {x \in S.crew_assignments : ScheduleFilter(K, query, today, x)} }

\* ORDER BY cm.name, e.event_date, e.start_time; the start times are not in
\* the catalog, rows of one date come as the store ranks their events
ScheduleOrder(rows, rank) ==
    OrderBy([r \in rows |->
        <<Collate(r.crew_name), r.event_date, rank[r.event_id],
          IF r.crew_id = "c1" THEN 1 ELSE 2>>])

\* one turn of result.rows.forEach
ScheduleStep(byCrewMember, row) ==
    LET old == IF row.crew_id \in DOMAIN byCrewMember THEN byCrewMember[row.crew_id]
               ELSE [id |-> row.crew_id, name |-> row.crew_name,
                     assignments |-> <<>>]
        new == [old EXCEPT !.assignments =
                   Append(@, [event_id |-> row.event_id,
                              event_name |-> row.event_name,
                              event_date |-> row.event_date,
                              call_time |-> row.call_time,
                              status |-> row.status])]
    IN  [c \in DOMAIN byCrewMember \cup {row.crew_id} |->
            IF c = row.crew_id THEN new ELSE byCrewMember[c]]

RECURSIVE ScheduleLoop(_, _)
ScheduleLoop(byCrewMember, rows) ==
    IF rows = <<>> THEN byCrewMember
    ELSE ScheduleLoop(ScheduleStep(byCrewMember, Head(rows)), Tail(rows))

\* schedule: the groups by crew member id; totalAssignments: result.rows.length
ScheduleReport(status, text, schedule, n) ==
    [op |-> "GET /crew-schedule", status |-> status, text |-> text,
     schedule |-> schedule, totalAssignments |-> n]

GetCrewScheduleHandler(S, K, query, today, rank) ==
    LET rows == ScheduleRows(S, K, query, today)
    IN  ScheduleReport(200, "", ScheduleLoop(<<>>, ScheduleOrder(rows, rank)),
                       Cardinality(rows))

\* GET /crew-schedule: authenticate, then the handler
GetCrewScheduleOutcome(S, K, actor, query, today, rank) ==
    LET gate == Gate(actor, 0, FALSE)
    IN  IF gate # 0
        THEN ScheduleReport(gate, GateText(gate), <<>>, 0)
        ELSE GetCrewScheduleHandler(S, K, query, today, rank)

(***************************************************************************)
(* One availability or schedule request against a database.                *)
(***************************************************************************)
\* the day the requests are served
Today == 2

\* a crew assignment of a pair, as the bulk route creates it
ScheduleRow(c, e) ==
    CrewRow((IF c = "c1" THEN 0 ELSE 3)
              + (CASE e = "e1" -> 1 [] e = "e2" -> 2 [] OTHER -> 3),
            e, c, NULL, NULL, NULL, NULL, NULL)

\* the contents of crew_assignments: any events for c1; none, one or all
\* for c2
ScheduleTables ==
    { {ScheduleRow("c1", e) : e \in E1} \cup {ScheduleRow("c2", e) : e \in E2} :
        E1 \in SUBSET ReportEvents,
        E2 \in {{}, {"e1"}, {"e3"}, ReportEvents} }

ScheduleDatabases ==
    { [store |-> [ReportStore(ca, {}) EXCEPT
                     !.crew_members = [c \in CrewIds |-> c = "c1" \/ active]],
       catalog |-> ReportCatalog(d, [e \in ReportEvents |-> NULL])] :
        ca \in ScheduleTables, active \in BOOLEAN,
        d \in [ReportEvents -> 1..3] }

AvailabilityQueries ==
    { [start_date |-> Date(a), end_date |-> Date(b)] :
        a \in {1, 2}, b \in {1, 2, 3} }
    \cup {[start_date |-> Date(3), end_date |-> Date(1)],
          [start_date |-> Date(1)], [end_date |-> Date(3)]}

ScheduleQueries ==
    Bodies([start_date |-> {Date(1), Date(3)}, end_date |-> {Date(2)},
            crew_member_id |-> {Str("c1"), Str(NoCrew)}])

ScheduleRequests ==
    { [op |-> "GET /availability/crew", query |-> q] : q \in AvailabilityQueries }
    \cup { [op |-> "GET /crew-schedule", query |-> q] : q \in ScheduleQueries }

InitSchedule ==
    \E db \in ScheduleDatabases :
        /\ events = db.store.events
        /\ crew_members = db.store.crew_members
        /\ equipment = db.store.equipment
        /\ crew_assignments = db.store.crew_assignments
        /\ equipment_assignments = db.store.equipment_assignments
        /\ seq = db.store.seq
        /\ catalog = db.catalog
        /\ Idle
        /\ resp = Response("none", 0, "")
        /\ request \in ScheduleRequests

GetAvailability(rank) ==
    /\ resp.op = "none"
    /\ request.op = "GET /availability/crew"
    /\ resp' = GetAvailabilityOutcome(Store, catalog, Admin, request.query, rank)
    /\ UNCHANGED <<events, crew_members, equipment, crew_assignments,
                   equipment_assignments, seq, request, catalog,
                   users, now, inflight>>

GetCrewSchedule(rank) ==
    /\ resp.op = "none"
    /\ request.op = "GET /crew-schedule"
    /\ resp' = GetCrewScheduleOutcome(Store, catalog, Admin, request.query,
                                      Today, rank)
    /\ UNCHANGED <<events, crew_members, equipment, crew_assignments,
                   equipment_assignments, seq, request, catalog,
                   users, now, inflight>>

NextSchedule ==
    \/ \E rank \in Ranks : GetAvailability(rank)
    \/ \E rank \in Ranks : GetCrewSchedule(rank)

SpecSchedule == InitSchedule /\ [][NextSchedule]_vars

\* the assignments of a crew member whose event date is in the range of an
\* availability request
InRange(c) ==
    {a \in crew_assignments :
        /\ a.crew_member_id = c
        /\ catalog.event_date[a.event_id] >= request.query["start_date"][2]
        /\ catalog.event_date[a.event_id] <= request.query["end_date"][2]}

\* an availability request with both dates was served
AvailabilityServed ==
    /\ resp.op = "GET /availability/crew"
    /\ {"start_date", "end_date"} \subseteq DOMAIN request.query

\* C18: crewAvailability answers with exactly one entry for every active crew
\* member and none for an inactive one; a member without assignment in the
\* range (no assignment at all, only assignments out of the range, or a
\* range without events) has an entry with an empty list.
C18_EveryActiveMemberListed ==
    AvailabilityServed =>
        /\ resp.status = 200
        /\ DOMAIN resp.availability = {c \in DOMAIN crew_members : crew_members[c]}
        /\ \A c \in DOMAIN resp.availability :
              /\ resp.availability[c].id = c
              /\ InRange(c) = {} => resp.availability[c].assignments = <<>>

\* two active members were listed with empty lists, one without assignment
\* and one with assignments out of the range
C18_Witness ==
    /\ AvailabilityServed
    /\ resp.status = 200
    /\ DOMAIN resp.availability = {"c1", "c2"}
    /\ \A c \in {"c1", "c2"} : resp.availability[c].assignments = <<>>
    /\ \E a \in crew_assignments : a.crew_member_id = "c1"
    /\ \A a \in crew_assignments : a.crew_member_id # "c2"

\* C19: in the crewAvailability answer the list of an active crew member has
\* exactly one (date, event name) pair for each of the member's assignments
\* whose event date d has startDate <= d <= endDate, no other pair, and is in
\* ascending order of the date.
C19_ListIsInRangeAndOrdered ==
    AvailabilityServed =>
        \A c \in DOMAIN resp.availability :
            LET list == resp.availability[c].assignments
            IN  /\ Len(list) = Cardinality(InRange(c))
                /\ {list[i] : i \in 1..Len(list)}
                      = { [date |-> catalog.event_date[a.event_id],
                           event |-> catalog.event_name[a.event_id]] :
                            a \in InRange(c) }
                /\ \A i, j \in 1..Len(list) :
                      i < j => list[i].date <= list[j].date

\* a member with three assignments was listed with the two in the range, on
\* the first and the last day of the range, the later event having the
\* smaller id
C19_Witness ==
    /\ AvailabilityServed
    /\ resp.status = 200
    /\ Cardinality({a \in crew_assignments : a.crew_member_id = "c1"}) = 3
    /\ Len(resp.availability["c1"].assignments) = 2
    /\ resp.availability["c1"].assignments[1].date = request.query["start_date"][2]
    /\ resp.availability["c1"].assignments[2].date = request.query["end_date"][2]
    /\ resp.availability["c1"].assignments[1].date
          < resp.availability["c1"].assignments[2].date
    /\ resp.availability["c1"].assignments[2].event = "e1"

\* the crew assignments that match the filters of a schedule request
Scheduled ==
    {a \in crew_assignments :
        LET q == request.query
            d == catalog.event_date[a.event_id]
        IN  /\ IF "start_date" \in DOMAIN q THEN d >= q["start_date"][2]
                                            ELSE d >= Today
            /\ "end_date" \in DOMAIN q => d <= q["end_date"][2]
            /\ "crew_member_id" \in DOMAIN q
                  => Str(a.crew_member_id) = q["crew_member_id"]}

\* C20: crewScheduleReport lists exactly the crew assignments whose event
\* matches the filters (from today on without a start date, from the start
\* date on with one, up to the end date and for the crew member when given),
\* each once and in the group of its crew member; only members with a
\* matching assignment have a group; totalAssignments is the sum of the group
\* sizes.
C20_ScheduleListsMatchingAssignments ==
    (resp.op = "GET /crew-schedule") =>
        /\ resp.status = 200
        /\ DOMAIN resp.schedule = {a.crew_member_id : a \in Scheduled}
        /\ \A c \in DOMAIN resp.schedule :
              LET list == resp.schedule[c].assignments
                  mine == {a \in Scheduled : a.crew_member_id = c}
              IN  /\ resp.schedule[c].id = c
                  /\ Len(list) = Cardinality(mine)
                  /\ {list[i].event_id : i \in 1..Len(list)}
                        = {a.event_id : a \in mine}
        /\ resp.totalAssignments
              = Sum([c \in DOMAIN resp.schedule |->
                        Len(resp.schedule[c].assignments)])
        /\ resp.totalAssignments = Cardinality(Scheduled)

\* a schedule without start date was read: two groups, an assignment of a
\* past event left out
C20_Witness ==
    /\ resp.op = "GET /crew-schedule"
    /\ resp.status = 200
    /\ "start_date" \notin DOMAIN request.query
    /\ DOMAIN resp.schedule = {"c1", "c2"}
    /\ resp.totalAssignments = 3
    /\ \E a \in crew_assignments : catalog.event_date[a.event_id] < Today

(***************************************************************************)
(* Deleting events, crew members and equipment.                            *)
(***************************************************************************)
\* a faulty variant of DeleteEventHandler: the assignment tables lack ON DELETE
\* CASCADE and the event's assignments stay
DeleteEventHandlerNoCascade(S, id) ==
    IF id \notin S.events
    THEN Outcome(Response("DELETE /api/events/:id", 404, "Event not found"), S)
    ELSE Outcome(Response("DELETE /api/events/:id", 200,
                          "Event deleted successfully"),
                 [S EXCEPT !.events = @ \ {id}])

\* DELETE FROM events WHERE id = $1: event_id ... REFERENCES events(id) ON
\* DELETE CASCADE removes the event's rows of both assignment tables
DeleteEventHandler(S, id) ==
    IF id \notin S.events
    THEN Outcome(Response("DELETE /api/events/:id", 404, "Event not found"), S)
    ELSE Outcome(Response("DELETE /api/events/:id", 200,
                          "Event deleted successfully"),
                 [S EXCEPT !.events = @ \ {id},
                           !.crew_assignments = {a \in @ : a.event_id # id},
                           !.equipment_assignments = {a \in @ : a.event_id # id}])

DeleteEventOutcome(S, actor, id) ==
    LET gate == Gate(actor, isAdmin(actor), FALSE)
    IN  IF gate # 0
        THEN Outcome(Response("DELETE /api/events/:id", gate, GateText(gate)), S)
        ELSE DeleteEventHandler(S, id)

\* UPDATE crew_members SET is_active = false WHERE id = $1
DeleteCrewMemberHandler(S, id) ==
    IF id \notin DOMAIN S.crew_members
    THEN Outcome(Response("DELETE /api/crew/:id", 404, "Crew member not found"), S)
    ELSE Outcome(Response("DELETE /api/crew/:id", 200,
                          "Crew member deactivated successfully"),
                 [S EXCEPT !.crew_members[id] = FALSE])

DeleteCrewMemberOutcome(S, actor, id) ==
    LET gate == Gate(actor, isAdmin(actor), FALSE)
    IN  IF gate # 0
        THEN Outcome(Response("DELETE /api/crew/:id", gate, GateText(gate)), S)
        ELSE DeleteCrewMemberHandler(S, id)

\* UPDATE equipment SET is_active = false WHERE id = $1
DeleteEquipmentItemHandler(S, id) ==
    IF id \notin DOMAIN S.equipment
    THEN Outcome(Response("DELETE /api/equipment/:id", 404, "Equipment not found"), S)
    ELSE Outcome(Response("DELETE /api/equipment/:id", 200,
                          "Equipment deactivated successfully"),
                 [S EXCEPT !.equipment[id] = FALSE])

DeleteEquipmentItemOutcome(S, actor, id) ==
    LET gate == Gate(actor, isAdmin(actor), FALSE)
    IN  IF gate # 0
        THEN Outcome(Response("DELETE /api/equipment/:id", gate, GateText(gate)), S)
        ELSE DeleteEquipmentItemHandler(S, id)

(***************************************************************************)
(* The life of the rows: requests of an admin, one after the other, that   *)
(* create, update and delete assignments and delete what they refer to.    *)
(***************************************************************************)
LifeCrewBodies ==
    { [event_id |-> Str(e), crew_member_id |-> Str(c)] :
        e \in EventIds, c \in {"c1"} }

LifeBulkBodies ==
    { [event_id |-> Str(e), crew_member_ids |-> l] :
        e \in {"e1"}, l \in {<<"c1", "c2">>, <<"c2">>} }

LifePutCrewBodies ==
    { [status |-> Str("confirmed")], [status |-> Str("pending")],
      [status |-> Str("")], [call_time |-> Str("09:00")],
      [call_time |-> Str("09:00"), status |-> Str("completed")] }

LifeQuantities == {Num(0), Str("0"), Str("2")}

LifeEquipmentBodies ==
    { [event_id |-> Str(e), equipment_id |-> Str("q1")] : e \in EventIds }
    \cup { [event_id |-> Str("e1"), equipment_id |-> Str("q1"), quantity |-> n] :
            n \in LifeQuantities }

LifePutEquipmentBodies ==
    { [quantity |-> n] : n \in LifeQuantities \cup {Str("")} }

InitLife ==
    /\ events = EventIds
    /\ crew_members = [c \in CrewIds |-> TRUE]
    /\ equipment = [q \in EquipmentIds |-> TRUE]
    /\ crew_assignments = {}
    /\ equipment_assignments = {}
    /\ seq = 0
    /\ resp = Response("none", 0, "")
    /\ request = NoRequest
    /\ catalog = Catalog0
    /\ Idle

LifeDeleteEvent(id) == Serve(DeleteEventOutcome(Store, Admin, id))
LifeDeleteCrewMember(id) == Serve(DeleteCrewMemberOutcome(Store, Admin, id))
LifeDeleteEquipmentItem(id) == Serve(DeleteEquipmentItemOutcome(Store, Admin, id))

\* GET /event/:id, a request that reads
LifeGetEvent(id) ==
    /\ resp' = GetEventOutcome(Store, catalog, Admin, id)
    /\ UNCHANGED <<events, crew_members, equipment, crew_assignments,
                   equipment_assignments, seq, request, catalog,
                   users, now, inflight>>

\* the ids the store may have drawn
LifeIds == 1..MaxRows

NextLife ==
    \/ \E body \in LifeCrewBodies : PostCrew(Admin, body)
    \/ \E body \in LifeBulkBodies : PostCrewBulk(Admin, body)
    \/ \E id \in LifeIds, body \in LifePutCrewBodies : PutCrew(Admin, id, body)
    \/ \E id \in LifeIds : DeleteCrew(Admin, id)
    \/ \E body \in LifeEquipmentBodies : PostEquipment(Admin, body)
    \/ \E id \in LifeIds, body \in LifePutEquipmentBodies :
          PutEquipment(Admin, id, body)
    \/ \E id \in LifeIds : DeleteEquipment(Admin, id)
    \/ \E id \in EventIds : LifeDeleteEvent(id)
    \/ \E id \in {"c1"} : LifeDeleteCrewMember(id)
    \/ \E id \in {"q1"} : LifeDeleteEquipmentItem(id)
    \/ \E id \in {"e1"} : LifeGetEvent(id)

SpecLife == InitLife /\ [][NextLife]_vars

\* a crew assignment of the next state that the state has not
Created(b) == \A a \in crew_assignments : a.id # b.id

\* the step changes the status of a crew assignment
StatusChanged ==
    \E a \in crew_assignments, b \in crew_assignments' :
        a.id = b.id /\ a.status # b.status

\* the step is a PUT /crew/:id whose body has a status, answered 200 for the
\* one row whose status differs
StatusUpdate ==
    \E id \in LifeIds, body \in LifePutCrewBodies :
        /\ "status" \in DOMAIN body
        /\ PutCrew(Admin, id, body)
        /\ resp'.status = 200
        /\ \A a \in crew_assignments, b \in crew_assignments' :
              (a.id = b.id /\ a.status # b.status) => a.id = id

\* C21: a crew assignment that a single or a bulk create adds has status
\* pending; in every reachable state the status of every crew assignment is
\* one of pending, confirmed, declined, no_show, completed; and a step that
\* changes a status is an update of that assignment whose body supplies a
\* status (no create, bulk create, update of other fields, delete or read
\* changes one).
C21_StatusChangesOnlyByUpdate ==
    /\ [](\A a \in crew_assignments : a.status \in {Str(v) : v \in StatusValues})
    /\ [][ /\ \A b \in crew_assignments' : Created(b) => b.status = Str("pending")
           /\ StatusChanged => StatusUpdate ]_vars

\* after updates, one assignment is confirmed and another, whose call time
\* was updated, is still pending
C21_Witness ==
    /\ resp.op = "PUT /crew/:id"
    /\ resp.status = 200
    /\ \E a, b \in crew_assignments :
          /\ a.status = Str("confirmed")
          /\ b.status = Str("pending")
          /\ b.call_time = Str("09:00")

\* a quantity that denotes a number below one
BelowOne(v) == ToNumeric(v)[1] = "number" /\ ToNumeric(v)[2] < 1

\* C24: in every reachable state the quantity of every equipment assignment
\* is an integer >= 1; a create without quantity stores 1; a create or an
\* update with a quantity below 1 is answered 400 and leaves the store as it
\* was.
C24_QuantityAtLeastOne ==
    /\ \A a \in equipment_assignments :
          a.quantity[1] = "number" /\ a.quantity[2] \in Nat \ {0}
    /\ \A body \in LifeEquipmentBodies :
          LET out == PostEquipmentOutcome(Store, Admin, body)
          IN  /\ ("quantity" \notin DOMAIN body /\ out.resp.status = 201)
                    => out.resp.assignment.quantity = Num(1)
              /\ ("quantity" \in DOMAIN body /\ BelowOne(body["quantity"]))
                    => out.resp.status = 400 /\ out.store = Store
    /\ \A id \in LifeIds, body \in LifePutEquipmentBodies :
          LET out == PutEquipmentOutcome(Store, Admin, id, body)
          IN  BelowOne(body["quantity"])
                 => out.resp.status = 400 /\ out.store = Store

\* an update was refused while the store holds an assignment created without
\* quantity and one created with quantity "2"
C24_Witness ==
    /\ resp.op = "PUT /equipment/:id"
    /\ resp.status = 400
    /\ {a.quantity : a \in equipment_assignments} = {Num(1), Num(2)}

\* C28: in every reachable state every crew and equipment assignment refers
\* to an events row and to a crew_members or equipment row that exist;
\* deleting an event removes the event and exactly the assignments of that
\* event; deleting a crew member or an equipment item sets it inactive and
\* leaves every row, its assignments included, in place.
C28_AssignmentsReferToExistingRows ==
    /\ \A a \in crew_assignments :
          a.event_id \in events /\ a.crew_member_id \in DOMAIN crew_members
    /\ \A a \in equipment_assignments :
          a.event_id \in events /\ a.equipment_id \in DOMAIN equipment
    /\ \A id \in events :
          LET out == DeleteEventOutcome(Store, Admin, id)
          IN  /\ out.resp.status = 200
              /\ out.store =
                   [Store EXCEPT
                      !.events = @ \ {id},
                      !.crew_assignments = {a \in @ : a.event_id # id},
                      !.equipment_assignments = {a \in @ : a.event_id # id}]
    /\ \A id \in DOMAIN crew_members :
          LET out == DeleteCrewMemberOutcome(Store, Admin, id)
          IN  /\ out.resp.status = 200
              /\ out.store = [Store EXCEPT !.crew_members[id] = FALSE]
    /\ \A id \in DOMAIN equipment :
          LET out == DeleteEquipmentItemOutcome(Store, Admin, id)
          IN  /\ out.resp.status = 200
              /\ out.store = [Store EXCEPT !.equipment[id] = FALSE]

\* an event was deleted: of the two assignments made, the one of the other
\* event is left, and its crew member has been deactivated
C28_Witness ==
    /\ resp.op = "DELETE /api/events/:id"
    /\ resp.status = 200
    /\ events = {"e2"}
    /\ seq = 2
    /\ equipment_assignments = {}
    /\ \E a \in crew_assignments :
          /\ crew_assignments = {a}
          /\ a.id = 1
          /\ ~crew_members[a.crew_member_id]

(***************************************************************************)
(* One request of any caller against a loaded store: the role gates.       *)
(***************************************************************************)
\* the loaded store with every crew member and equipment item active
GateStore ==
    [LoadedStore EXCEPT !.crew_members = [c \in CrewIds |-> TRUE],
                        !.equipment = [q \in EquipmentIds |-> TRUE]]

\* the requests that write an assignment; each one changes the store when a
\* scheduler sends it
GateWrites ==
    { [op |-> "POST /crew",
       body |-> [event_id |-> Str("e1"), crew_member_id |-> Str("c2")]],
      [op |-> "POST /crew/bulk",
       body |-> [event_id |-> Str("e1"), crew_member_ids |-> <<"c2">>]],
      [op |-> "POST /equipment",
       body |-> [event_id |-> Str("e1"), equipment_id |-> Str("q2")]] }
    \cup { [op |-> "PUT /crew/:id", id |-> i, body |-> b] :
            i \in {1, 2}, b \in {[status |-> Str("declined")], [notes |-> Str("m")]} }
    \cup { [op |-> "PUT /equipment/:id", id |-> i, body |-> b] :
            i \in {3, 4}, b \in {[quantity |-> Num(3)], [notes |-> Str("m")]} }
    \cup { [op |-> "DELETE /crew/:id", id |-> i] : i \in {1, 2} }
    \cup { [op |-> "DELETE /equipment/:id", id |-> i] : i \in {3, 4} }

\* the requests that read
GateReads ==
    { [op |-> "GET /availability/crew",
       query |-> [start_date |-> Date(1), end_date |-> Date(2)]],
      [op |-> "GET /costs", query |-> Empty],
      [op |-> "GET /costs", query |-> [cost_center |-> Str("A")]],
      [op |-> "GET /crew-schedule", query |-> Empty],
      [op |-> "GET /crew-schedule", query |-> [start_date |-> Date(1)]] }
    \cup { [op |-> "GET /event/:id", event |-> e] : e \in EventIds }

GateRequests ==
    { r @@ [actor |-> a] : r \in GateWrites \cup GateReads, a \in Actors }

InitGate ==
    /\ events = GateStore.events
    /\ crew_members = GateStore.crew_members
    /\ equipment = GateStore.equipment
    /\ crew_assignments = GateStore.crew_assignments
    /\ equipment_assignments = GateStore.equipment_assignments
    /\ seq = GateStore.seq
    /\ resp = Response("none", 0, "")
    /\ request \in GateRequests
    /\ catalog = Catalog0
    /\ Idle

\* the request under study is served, if it has the route
GateWrite(op, out) ==
    /\ resp.op = "none"
    /\ request.op = op
    /\ events' = out.store.events
    /\ crew_members' = out.store.crew_members
    /\ equipment' = out.store.equipment
    /\ crew_assignments' = out.store.crew_assignments
    /\ equipment_assignments' = out.store.equipment_assignments
    /\ seq' = out.store.seq
    /\ resp' = out.resp
    /\ UNCHANGED <<request, catalog, users, now, inflight>>

GateRead(op, response) ==
    /\ resp.op = "none"
    /\ request.op = op
    /\ resp' = response
    /\ UNCHANGED <<events, crew_members, equipment, crew_assignments,
                   equipment_assignments, seq, request, catalog,
                   users, now, inflight>>

GatePostCrew ==
    GateWrite("POST /crew", PostCrewOutcome(Store, request.actor, request.body))
GatePostCrewBulk ==
    GateWrite("POST /crew/bulk",
              PostCrewBulkOutcome(Store, request.actor, request.body))
GatePutCrew ==
    GateWrite("PUT /crew/:id",
              PutCrewOutcome(Store, request.actor, request.id, request.body))
GateDeleteCrew ==
    GateWrite("DELETE /crew/:id",
              DeleteCrewOutcome(Store, request.actor, request.id))
GatePostEquipment ==
    GateWrite("POST /equipment",
              PostEquipmentOutcome(Store, request.actor, request.body))
GatePutEquipment ==
    GateWrite("PUT /equipment/:id",
              PutEquipmentOutcome(Store, request.actor, request.id, request.body))
GateDeleteEquipment ==
    GateWrite("DELETE /equipment/:id",
              DeleteEquipmentOutcome(Store, request.actor, request.id))
GateGetAvailability(rank) ==
    GateRead("GET /availability/crew",
             GetAvailabilityOutcome(Store, catalog, request.actor,
                                    request.query, rank))
GateGetEvent ==
    GateRead("GET /event/:id",
             GetEventOutcome(Store, catalog, request.actor, request.event))
GateGetCosts ==
    GateRead("GET /costs",
             GetCostsOutcome(Store, catalog, request.actor, request.query))
GateGetCrewSchedule(rank) ==
    GateRead("GET /crew-schedule",
             GetCrewScheduleOutcome(Store, catalog, request.actor,
                                    request.query, Today, rank))

NextGate ==
    \/ GatePostCrew
    \/ GatePostCrewBulk
    \/ GatePutCrew
    \/ GateDeleteCrew
    \/ GatePostEquipment
    \/ GatePutEquipment
    \/ GateDeleteEquipment
    \/ \E rank \in Ranks : GateGetAvailability(rank)
    \/ GateGetEvent
    \/ GateGetCosts
    \/ \E rank \in Ranks : GateGetCrewSchedule(rank)

SpecGate == InitGate /\ [][NextGate]_vars

\* the request under study has been answered
Answered == resp.op # "none"

\* a caller that is no scheduler or admin with a valid token and an active
\* account
NotAllowedToWrite(actor) ==
    ~actor.token \/ ~actor.is_active \/ actor.role \notin {"admin", "scheduler"}

\* C22: a create, bulk create, update or delete of a crew or equipment
\* assignment sent by a crew-role user, by a deactivated account or without
\* valid authentication is rejected (401 or 403) and leaves every table as
\* it was.
C22_OnlySchedulersWrite ==
    (Answered /\ request \in {r @@ [actor |-> a] : r \in GateWrites, a \in Actors}
              /\ NotAllowedToWrite(request.actor))
        => /\ resp.status \in {401, 403}
           /\ resp.status = 403 <=> (request.actor.token /\ request.actor.is_active)
           /\ Store = GateStore

\* a bulk create of an active crew-role user was answered 403, the store is
\* as it was
C22_Witness ==
    /\ Answered
    /\ request.op = "POST /crew/bulk"
    /\ request.actor = [token |-> TRUE, is_active |-> TRUE, role |-> "crew"]
    /\ resp.status = 403
    /\ Store = GateStore

\* C23: a read of the crew availability, the event cost summary, the cost
\* report or the crew schedule by a caller with a valid token and an active
\* account is served whatever the caller's role: it is not answered 401 or
\* 403.
C23_AnyRoleReads ==
    (Answered /\ request \in {r @@ [actor |-> a] : r \in GateReads, a \in Actors}
              /\ request.actor.token /\ request.actor.is_active)
        => resp.status \notin {401, 403}

\* C26: a status change made by PUT /crew/:id starts from pending: an
\* assignment whose status has left pending does not return to pending and
\* does not move between two statuses that are not pending.
C26_StatusLeavesPendingOnly ==
    (resp.op = "PUT /crew/:id" /\ resp.status = 200) =>
        \A old \in LoadedCrewAssignments :
            (old.id = request.id /\ old.status # resp.assignment.status)
                => old.status = Str("pending")

(***************************************************************************)
(* Requests served at the same time.  A handler awaits each statement it   *)
(* sends to the store; the store runs one statement at a time and commits  *)
(* it (no handler opens a transaction), so a step is one statement         *)
(* together with the code of the handler up to its next statement.         *)
(* inflight gives, per request, the statement it sends next (pc), the      *)
(* crew member ids a bulk loop has still to insert (todo), the bulk        *)
(* results, the row an insert returned and the response.                   *)
(***************************************************************************)
InFlight(op, body, pc) ==
    [op |-> op, body |-> body, pc |-> pc,
     todo |-> IF op = "POST /crew/bulk" THEN body["crew_member_ids"] ELSE <<>>,
     results |-> NoResults, row |-> NoRow, resp |-> Response("none", 0, "")]

RaceCreate(e, c) ==
    InFlight("POST /crew", [event_id |-> Str(e), crew_member_id |-> Str(c)],
             "eventCheck")
RaceBulk(e, ids) ==
    InFlight("POST /crew/bulk", [event_id |-> Str(e), crew_member_ids |-> ids],
             "insert")
RaceDeactivate(c) == InFlight("DELETE /api/crew/:id", [id |-> c], "update")
RaceDeleteEvent(e) == InFlight("DELETE /api/events/:id", [id |-> e], "delete")

\* the requests that meet: two creates, a create and a bulk create, a create
\* and the removal of what it refers to
RaceScenarios ==
    { ("r1" :> RaceCreate("e1", "c1")) @@ ("r2" :> RaceCreate("e1", c)) :
        c \in CrewIds }
    \cup
    { ("r1" :> RaceCreate("e1", "c1")) @@ ("r2" :> RaceBulk("e1", ids)) :
        ids \in {<<"c1">>, <<"c1", "c2">>, <<"c2", "c1">>} }
    \cup
    { ("r1" :> RaceCreate("e1", "c1")) @@ ("r2" :> RaceDeactivate("c1")),
      ("r1" :> RaceCreate("e1", "c1")) @@ ("r2" :> RaceDeleteEvent("e1")),
      ("r1" :> RaceCreate("e1", "c1")) @@ ("r2" :> RaceDeactivate("c1"))
          @@ ("r3" :> RaceDeleteEvent("e1")) }

InitRace ==
    /\ events = EventIds
    /\ crew_members = [c \in CrewIds |-> TRUE]
    /\ equipment = [q \in EquipmentIds |-> TRUE]
    /\ crew_assignments = {}
    /\ equipment_assignments = {}
    /\ seq = 0
    /\ resp = Response("none", 0, "")
    /\ request = NoRequest
    /\ catalog = Catalog0
    /\ users = Users0
    /\ now = 0
    /\ inflight \in RaceScenarios

\* request r goes on as p and the store becomes S
RaceStep(r, p, S) ==
    /\ inflight' = [inflight EXCEPT ![r] = p]
    /\ events' = S.events
    /\ crew_members' = S.crew_members
    /\ equipment' = S.equipment
    /\ crew_assignments' = S.crew_assignments
    /\ equipment_assignments' = S.equipment_assignments
    /\ seq' = S.seq
    /\ UNCHANGED <<resp, request, catalog, users, now>>

\* request r ends with a response
Ended(p, response) == [p EXCEPT !.pc = "done", !.resp = response]

\* POST /crew: SELECT id FROM events WHERE id = $1
CreateEventCheck(r) ==
    LET p == inflight[r]
    IN  /\ p.op = "POST /crew" /\ p.pc = "eventCheck"
        /\ RaceStep(r,
              IF ~EventExists(Store, p.body["event_id"][2])
              THEN Ended(p, Response("POST /crew", 404, "Event not found"))
              ELSE [p EXCEPT !.pc = "crewCheck"],
              Store)

\* POST /crew: SELECT id FROM crew_members WHERE id = $1 AND is_active = true
CreateCrewCheck(r) ==
    LET p == inflight[r]
    IN  /\ p.op = "POST /crew" /\ p.pc = "crewCheck"
        /\ RaceStep(r,
              IF ~CrewMemberActive(Store, p.body["crew_member_id"][2])
              THEN Ended(p, Response("POST /crew", 404,
                                     "Crew member not found or inactive"))
              ELSE [p EXCEPT !.pc = "insert"],
              Store)

\* POST /crew: INSERT INTO crew_assignments ... RETURNING *, and the catch
\* clause
CreateInsert(r) ==
    LET p == inflight[r]
        row == CrewRow(seq + 1, p.body["event_id"][2],
                       p.body["crew_member_id"][2], NULL, NULL, NULL, NULL, NULL)
        code == CrewInsertError(Store, row)
    IN  /\ p.op = "POST /crew" /\ p.pc = "insert"
        /\ IF code = "23505"
           THEN RaceStep(r, Ended(p, Response("POST /crew", 409,
                                  "Crew member already assigned to this event")),
                         Store)
           ELSE IF code # ""
           THEN RaceStep(r, Ended(p, errorHandler("POST /crew", code)), Store)
           ELSE RaceStep(r, [p EXCEPT !.pc = "fetch", !.row = row],
                         [Store EXCEPT !.crew_assignments = @ \cup {row},
                                       !.seq = @ + 1])

\* POST /crew: SELECT ca.* ... WHERE ca.id = $1, then res.status(201): the
\* assignment of the response is the row as it is now, undefined when the
\* row is gone
CreateFetch(r) ==
    LET p == inflight[r]
        hit == {a \in crew_assignments : a.id = p.row.id}
    IN  /\ p.op = "POST /crew" /\ p.pc = "fetch"
        /\ RaceStep(r,
              Ended(p, [Response("POST /crew", 201, "") EXCEPT
                          !.assignment = IF hit = {} THEN NoRow
                                         ELSE CHOOSE a \in hit : TRUE]),
              Store)

\* POST /crew/bulk: one INSERT ... ON CONFLICT DO NOTHING of the loop; after
\* the last one the response
BulkInsert(r) ==
    LET p == inflight[r]
        acc == BulkStep([store |-> Store, results |-> p.results], p.body,
                        Head(p.todo))
        q == [p EXCEPT !.todo = Tail(@), !.results = acc.results]
    IN  /\ p.op = "POST /crew/bulk" /\ p.pc = "insert"
        /\ RaceStep(r,
              IF Tail(p.todo) = <<>>
              THEN Ended(q, [Response("POST /crew/bulk", 200,
                                      "Assigned crew members")
                               EXCEPT !.results = acc.results])
              ELSE q,
              acc.store)

\* DELETE /api/crew/:id: UPDATE crew_members SET is_active = false
Deactivate(r) ==
    LET p == inflight[r]
        out == DeleteCrewMemberHandler(Store, p.body["id"])
    IN  /\ p.op = "DELETE /api/crew/:id" /\ p.pc = "update"
        /\ RaceStep(r, Ended(p, out.resp), out.store)

\* DELETE /api/events/:id: DELETE FROM events
DeleteEvent(r) ==
    LET p == inflight[r]
        out == DeleteEventHandler(Store, p.body["id"])
    IN  /\ p.op = "DELETE /api/events/:id" /\ p.pc = "delete"
        /\ RaceStep(r, Ended(p, out.resp), out.store)

NextRace ==
    \/ \E r \in DOMAIN inflight : CreateEventCheck(r)
    \/ \E r \in DOMAIN inflight : CreateCrewCheck(r)
    \/ \E r \in DOMAIN inflight : CreateInsert(r)
    \/ \E r \in DOMAIN inflight : CreateFetch(r)
    \/ \E r \in DOMAIN inflight : BulkInsert(r)
    \/ \E r \in DOMAIN inflight : Deactivate(r)
    \/ \E r \in DOMAIN inflight : DeleteEvent(r)

SpecRace == InitRace /\ [][NextRace]_vars

\* every request in flight has its response
AllDone == \A r \in DOMAIN inflight : inflight[r].pc = "done"

\* the requests in flight are creates and bulk creates
OnlyCreates ==
    \A r \in DOMAIN inflight : inflight[r].op \in {"POST /crew", "POST /crew/bulk"}

\* the (event, crew member) pair of a single create
PairOf(p) == <<p.body["event_id"][2], p.body["crew_member_id"][2]>>

\* bulk request b inserts for the pair
BulkNames(b, pair) ==
    /\ b.body["event_id"][2] = pair[1]
    /\ \E i \in 1..Len(b.body["crew_member_ids"]) :
          b.body["crew_member_ids"][i] = pair[2]

\* C25: with creates for one (event, crew member) pair in flight together,
\* the pair never has two rows; when they have ended the pair has exactly
\* one row; of two single creates one is answered 201 and the other 409
\* Conflict; a bulk create that meets a single create is answered 200 without
\* an error entry for the pair, the single create 201 or 409.
C25_ConcurrentCreatesOneRow ==
    /\ \A e \in EventIds, c \in CrewIds :
          Cardinality(CrewPair(crew_assignments, e, c)) <= 1
    /\ (AllDone /\ OnlyCreates) =>
          \A r, o \in DOMAIN inflight :
              LET p == inflight[r]
                  q == inflight[o]
                  rows == CrewPair(crew_assignments, PairOf(p)[1], PairOf(p)[2])
              IN  (r # o /\ p.op = "POST /crew") =>
                    /\ (q.op = "POST /crew" /\ PairOf(q) = PairOf(p)) =>
                          /\ Cardinality(rows) = 1
                          /\ {p.resp.status, q.resp.status} = {201, 409}
                          /\ p.resp.status = 409 =>
                                p.resp.text
                                  = "Crew member already assigned to this event"
                    /\ (q.op = "POST /crew/bulk" /\ BulkNames(q, PairOf(p))) =>
                          /\ Cardinality(rows) = 1
                          /\ p.resp.status \in {201, 409}
                          /\ q.resp.status = 200
                          /\ \A i \in 1..Len(q.resp.results.errors) :
                                q.resp.results.errors[i].crew_member_id
                                    # PairOf(p)[2]

\* two single creates for one pair passed both checks before either
\* inserted: the first to insert was answered 201, the other 409
C25_Witness ==
    /\ AllDone
    /\ DOMAIN inflight = {"r1", "r2"}
    /\ inflight["r1"].op = "POST /crew" /\ inflight["r2"].op = "POST /crew"
    /\ PairOf(inflight["r1"]) = PairOf(inflight["r2"])
    /\ inflight["r1"].resp.status = 409
    /\ inflight["r2"].resp.status = 201
    /\ Cardinality(crew_assignments) = 1

\* request r is a single create that meets only removals
MeetsRemovals(r) ==
    /\ inflight[r].op = "POST /crew"
    /\ \A o \in DOMAIN inflight \ {r} :
          inflight[o].op \in {"DELETE /api/crew/:id", "DELETE /api/events/:id"}

\* the step is the insert of single create r taking effect
InsertTakesEffect(r) ==
    /\ inflight[r].pc = "insert"
    /\ inflight'[r].pc = "fetch"

\* C27: a single create that runs together with the deactivation of its crew
\* member or the deletion of its event either ends with 404 and has stored
\* nothing, or ends with 201; and when its insert takes effect the event
\* exists and the crew member is active.
C27_CreateAtomicWithValidation ==
    /\ [](\A r \in DOMAIN inflight :
            (MeetsRemovals(r) /\ inflight[r].pc = "done") =>
                \/ inflight[r].resp.status = 404 /\ inflight[r].row = NoRow
                \/ inflight[r].resp.status = 201)
    /\ [][\A r \in DOMAIN inflight :
            (MeetsRemovals(r) /\ InsertTakesEffect(r)) =>
                /\ inflight[r].body["event_id"][2] \in events
                /\ crew_members[inflight[r].body["crew_member_id"][2]]]_vars

(***************************************************************************)
(* POST /api/auth/login.  A login is two statements: the SELECT of the     *)
(* users row, with the lock and the is_active checks on the row it         *)
(* returned, and after bcrypt.compare the UPDATE of the counters, computed *)
(* from that row.  Up to two logins are in flight together.                *)
(***************************************************************************)
\* attempts >= 5 locks the account
LockThreshold == 5
\* ... for 15 minutes
LockMinutes == 15
\* no login starts once failed_login_attempts has reached MaxFailed, and the
\* clock stops at MaxClock
MaxFailed == 6
MaxClock == 30

\* a TIMESTAMP value, in minutes
Timestamp(t) == <<"timestamp", t>>

LoginEmails == {"crew@x", "off@x"}
LoginPasswords == {"pw3", "wrong"}
LoginSlots == {"r1", "r2"}

\* the users row of an email
UserOf(email) == CHOOSE u \in users : u.email = email

\* user.locked_until && new Date(user.locked_until) > new Date()
Locked(user) == user.locked_until # NULL /\ user.locked_until[2] > now

InitLogin ==
    /\ events = EventIds
    /\ crew_members = [c \in CrewIds |-> c = "c1"]
    /\ equipment = [q \in EquipmentIds |-> q = "q1"]
    /\ crew_assignments = {}
    /\ equipment_assignments = {}
    /\ seq = 0
    /\ resp = Response("none", 0, "")
    /\ request = NoRequest
    /\ catalog = Catalog0
    /\ users = Users0
    /\ now = 0
    /\ inflight = NoneInFlight

\* the tables no login writes
LoginFrame ==
    UNCHANGED <<events, crew_members, equipment, crew_assignments,
                equipment_assignments, seq, resp, request, catalog>>

\* a login request arrives
StartLogin(r, email, password) ==
    /\ IF r \in DOMAIN inflight THEN inflight[r].pc = "done" ELSE TRUE
    /\ UserOf(email).failed_login_attempts < MaxFailed
    /\ inflight' = [x \in DOMAIN inflight \cup {r} |->
                      IF x = r
                      THEN [op |-> "POST /login", email |-> email,
                            password |-> password, pc |-> "select",
                            user |-> NoRow, resp |-> Response("none", 0, "")]
                      ELSE inflight[x]]
    /\ UNCHANGED <<users, now>>
    /\ LoginFrame

\* SELECT ... FROM users WHERE email = $1, the locked_until check and the
\* is_active check
LoginSelect(r) ==
    LET p == inflight[r]
        hit == {u \in users : u.email = p.email}
        user == CHOOSE u \in hit : TRUE
    IN  /\ r \in DOMAIN inflight
        /\ p.pc = "select"
        /\ inflight' = [inflight EXCEPT ![r] =
              IF hit = {}
              THEN Ended(p, Response("POST /login", 401, "Invalid credentials"))
              ELSE IF Locked(user)
              THEN Ended(p, Response("POST /login", 423,
                             "Account is temporarily locked. Try again later."))
              ELSE IF ~user.is_active
              THEN Ended(p, Response("POST /login", 401, "Account is disabled"))
              ELSE [p EXCEPT !.pc = "update", !.user = user]]
        /\ UNCHANGED <<users, now>>
        /\ LoginFrame

\* bcrypt.compare, then UPDATE users SET failed_login_attempts = $1,
\* locked_until = $2 WHERE id = $3 for a wrong password, or the reset for
\* the right one
LoginUpdate(r) ==
    LET p == inflight[r]
        attempts == p.user.failed_login_attempts + 1
        lockUntil == IF attempts >= LockThreshold
                     THEN Timestamp(now + LockMinutes) ELSE NULL
    IN  /\ r \in DOMAIN inflight
        /\ p.pc = "update"
        /\ IF p.password # p.user.password
           THEN /\ users' = { IF u.id = p.user.id
                              THEN [u EXCEPT !.failed_login_attempts = attempts,
                                             !.locked_until = lockUntil]
                              ELSE u : u \in users }
                /\ inflight' = [inflight EXCEPT ![r] =
                      Ended(p, Response("POST /login", 401, "Invalid credentials"))]
           ELSE /\ users' = { IF u.id = p.user.id
                              THEN [u EXCEPT !.failed_login_attempts = 0,
                                             !.locked_until = NULL]
                              ELSE u : u \in users }
                /\ inflight' = [inflight EXCEPT ![r] =
                      Ended(p, Response("POST /login", 200, "Login successful"))]
        /\ UNCHANGED now
        /\ LoginFrame

\* time passes
Tick ==
    /\ now < MaxClock
    /\ now' = now + LockMinutes
    /\ UNCHANGED <<users, inflight>>
    /\ LoginFrame

NextLogin ==
    \/ \E r \in LoginSlots, email \in LoginEmails, password \in LoginPasswords :
          StartLogin(r, email, password)
    \/ \E r \in LoginSlots : LoginSelect(r)
    \/ \E r \in LoginSlots : LoginUpdate(r)
    \/ Tick

SpecLogin == InitLogin /\ [][NextLogin]_vars

\* the row of an email in a users table
UserIn(table, email) == CHOOSE u \in table : u.email = email

\* the step ends login r after its password was compared, with this status
PasswordEvaluated(r, status) ==
    /\ inflight[r].pc = "update"
    /\ inflight'[r].pc = "done"
    /\ inflight'[r].resp.status = status

\* C29: however logins on one account interleave, a wrong password is
\* evaluated only while no lock is in force and adds one to the account's
\* failed_login_attempts, so that the counter counts every wrong password
\* since the last successful login; the account is locked as soon as the
\* counter reaches 5; a login that meets the lock is answered 423; a login
\* succeeds only while no lock is in force, and resets the counter to 0.
C29_LockoutCountsEveryFailure ==
    [][\A r \in DOMAIN inflight :
          LET before == UserIn(users, inflight[r].email)
              after == UserIn(users', inflight[r].email)
          IN  /\ PasswordEvaluated(r, 401) =>
                    /\ ~Locked(before)
                    /\ after.failed_login_attempts
                          = before.failed_login_attempts + 1
                    /\ after.failed_login_attempts >= LockThreshold =>
                          /\ after.locked_until # NULL
                          /\ after.locked_until[2] > now
              /\ PasswordEvaluated(r, 200) =>
                    /\ ~Locked(before)
                    /\ after.failed_login_attempts = 0
              /\ (inflight[r].pc = "select" /\ inflight'[r].pc # "select"
                    /\ Locked(before)) =>
                    inflight'[r].resp.status = 423]_vars

(***************************************************************************)
(* POST /api/auth/register.  The route has no authenticate in front of it. *)
(* A registration is three statements: the SELECT that counts the users,    *)
(* the SELECT of the email, and after bcrypt.hash the INSERT.  Up to two    *)
(* registrations are in flight together; the users table starts empty.     *)
(***************************************************************************)
\* no registration starts once the table has MaxUsers rows
MaxUsers == 3

RegisterEmails == {"a@x", "b@x", "c@x"}
\* the role member of the body: absent, one of the three roles, or another
\* text
RegisterRoles == {Undefined, Str("admin"), Str("scheduler"), Str("crew"), Str("owner")}
RegisterSlots == {"r1", "r2"}

\* body('role').optional().isIn(['admin', 'scheduler', 'crew'])
RegisterInvalid(role) ==
    role # Undefined /\ role \notin {Str("admin"), Str("scheduler"), Str("crew")}

InitRegister ==
    /\ events = EventIds
    /\ crew_members = [c \in CrewIds |-> c = "c1"]
    /\ equipment = [q \in EquipmentIds |-> q = "q1"]
    /\ crew_assignments = {}
    /\ equipment_assignments = {}
    /\ seq = 0
    /\ resp = Response("none", 0, "")
    /\ request = NoRequest
    /\ catalog = Catalog0
    /\ users = {}
    /\ now = 0
    /\ inflight = NoneInFlight

\* a registration request arrives
StartRegister(r, email, role) ==
    /\ IF r \in DOMAIN inflight THEN inflight[r].pc = "done" ELSE TRUE
    /\ Cardinality(users) < MaxUsers
    /\ inflight' = [x \in DOMAIN inflight \cup {r} |->
                      IF x = r
                      THEN [op |-> "POST /register", email |-> email,
                            role |-> role, pc |-> "count",
                            isFirstUser |-> FALSE,
                            resp |-> Response("none", 0, "")]
                      ELSE inflight[x]]
    /\ UNCHANGED <<users, now>>
    /\ LoginFrame

\* validate, then the SELECT that counts the users, and isFirstUser
RegisterCount(r) ==
    LET p == inflight[r]
    IN  /\ r \in DOMAIN inflight
        /\ p.pc = "count"
        /\ inflight' = [inflight EXCEPT ![r] =
              IF RegisterInvalid(p.role)
              THEN Ended(p, Response("POST /register", 400, "validation errors"))
              ELSE [p EXCEPT !.pc = "existing", !.isFirstUser = (users = {})]]
        /\ UNCHANGED <<users, now>>
        /\ LoginFrame

\* SELECT id FROM users WHERE email = $1
RegisterExisting(r) ==
    LET p == inflight[r]
    IN  /\ r \in DOMAIN inflight
        /\ p.pc = "existing"
        /\ inflight' = [inflight EXCEPT ![r] =
              IF \E u \in users : u.email = p.email
              THEN Ended(p, Response("POST /register", 409,
                                     "Email already registered"))
              ELSE [p EXCEPT !.pc = "insert"]]
        /\ UNCHANGED <<users, now>>
        /\ LoginFrame

\* const { role = 'crew' } = req.body; finalRole = isFirstUser ? 'admin' : role
finalRole(p) ==
    IF p.isFirstUser THEN "admin"
    ELSE IF p.role = Undefined THEN "crew" ELSE p.role[2]

\* INSERT INTO users (email, password_hash, name, role); email is UNIQUE
RegisterInsert(r) ==
    LET p == inflight[r]
        row == UserRow(Cardinality(users) + 1, p.email, "pw", finalRole(p))
    IN  /\ r \in DOMAIN inflight
        /\ p.pc = "insert"
        /\ IF \E u \in users : u.email = p.email
           THEN /\ inflight' = [inflight EXCEPT ![r] =
                      Ended(p, errorHandler("POST /register", "23505"))]
                /\ UNCHANGED users
           ELSE /\ inflight' = [inflight EXCEPT ![r] =
                      Ended(p, Response("POST /register", 201,
                                        "User registered successfully"))]
                /\ users' = users \cup {row}
        /\ UNCHANGED now
        /\ LoginFrame

NextRegister ==
    \/ \E r \in RegisterSlots, email \in RegisterEmails, role \in RegisterRoles :
          StartRegister(r, email, role)
    \/ \E r \in RegisterSlots : RegisterCount(r)
    \/ \E r \in RegisterSlots : RegisterExisting(r)
    \/ \E r \in RegisterSlots : RegisterInsert(r)

SpecRegister == InitRegister /\ [][NextRegister]_vars

\* C30: the user a registration adds to the empty users table is an admin
\* whatever role was asked for; a registration that adds a user to a table
\* that has a user never makes it an admin or a scheduler, however
\* registrations interleave.
C30_OnlyFirstUserBecomesAdmin ==
    [][\A u \in users' \ users :
          IF users = {} THEN u.role = "admin"
          ELSE u.role \notin {"admin", "scheduler"}]_vars

====
